---- MODULE Spec2Model ----
(***************************************************************************)
(* Model of the parcel-prospecting service: the geometry store and its     *)
(* HTTP handlers (app.py), the TerrainAnalyzer and the ZoningCalculator    *)
(* (report.py).                                                            *)
(*                                                                         *)
(* Geometry.  A parcel geometry in EPSG:4326 is a set of cells of a        *)
(* rectilinear grid whose column widths are given in units of 1e-8 degree  *)
(* and whose row heights in units of 1e-5 degree; one column is a sliver   *)
(* a single unit (about a millimetre) wide.  The polygonal union is the    *)
(* union of the cell sets, the area is the sum of the cell areas and the   *)
(* length is the sum of the lengths of the cell edges on the boundary.     *)
(* Reprojection to EPSG:31984 maps a cell to a rectangle whose width is    *)
(* measured in micrometres and whose height in millimetres.                *)
(* Numbers.  Areas returned in m2 are integers counting 0.01 m2, lengths   *)
(* returned in m are integers counting 0.01 m (the code rounds both to     *)
(* two decimals), hectares are integers counting 0.0001 ha.                *)
(***************************************************************************)
EXTENDS Integers, Sequences, FiniteSets, TLC

VARIABLES
  dataset,           \* the dataset file at GEOJSON_PATH
  GEOJSON_DATA,      \* app.py global: None or Some(store frame)
  pc,                \* process position: "start" before __main__ loaded, then "serving"
  req,               \* the request being answered
  resp,              \* the response to it
  workers,           \* the requests in progress, one per server thread
  gdf,               \* TerrainAnalyzer.gdf of the analyzer instance under study
  unified_geometry,  \* TerrainAnalyzer.unified_geometry: None or Some(geometry)
  ret,               \* what the last analyzer method call returned or raised
  unify_runs,        \* how many times the instance computed a unified geometry
  calls,             \* how many methods were called on the analyzer instance
  area_terreno,      \* ZoningCalculator.area_terreno (0.01 m2)
  params,            \* ZoningCalculator.params
  zret               \* what the last calculator call returned

vars == <<dataset, GEOJSON_DATA, pc, req, resp, workers, gdf, unified_geometry, ret, unify_runs,
          calls, area_terreno, params, zret>>

appVars == <<dataset, GEOJSON_DATA, pc, req, resp, workers>>
anVars == <<gdf, unified_geometry, ret, unify_runs, calls>>
zcVars == <<area_terreno, params, zret>>

(***************************************************************************)
(* Bounds of the model.                                                    *)
(***************************************************************************)
MaxLots == 2        \* parcels in a selection given to an analyzer
MaxCalls == 3       \* method calls followed on one analyzer instance
MaxStoreRows == 2   \* parcels in the store
MaxIndices == 2     \* indices in the list posted to unir-lotes
MaxStrLen == 2      \* characters of a string parameter value
MaxListLen == 2     \* elements of a list parameter value
MaxCells == 4       \* attribute cells (rows x columns) of a table

(***************************************************************************)
(* Python values.                                                          *)
(***************************************************************************)
None == << >>
Some(x) == <<x>>
IsNone(o) == o = << >>
The(o) == o[1]

Range(s) == {s[i] : i \in DOMAIN s}

RECURSIVE SumSeq(_)
SumSeq(s) == IF s = << >> THEN 0 ELSE Head(s) + SumSeq(Tail(s))

(***************************************************************************)
(* Python floats.  A float is an IEEE double m * 2^e with the 53-bit       *)
(* mantissa m kept as a little-endian sequence of 15-bit limbs.            *)
(***************************************************************************)
Base == 2^15

Limb(n, i) == IF i \in DOMAIN n THEN n[i] ELSE 0

\* The operations on limbs go through a number by halves: the low half,
\* then the high half with the carry of the low one.

\* Limbs lo .. hi of n * k + carry, and the carry out of them.
RECURSIVE MulSmallLimbs(_, _, _, _, _)
MulSmallLimbs(n, k, lo, hi, carry) ==
  IF lo > hi THEN [limbs |-> << >>, carry |-> carry]
  ELSE IF lo = hi
  THEN LET t == n[lo] * k + carry
       IN  [limbs |-> <<t % Base>>, carry |-> t \div Base]
  ELSE LET mid == (lo + hi) \div 2
           low == MulSmallLimbs(n, k, lo, mid, carry)
           high == MulSmallLimbs(n, k, mid + 1, hi, low.carry)
       IN  [limbs |-> low.limbs \o high.limbs, carry |-> high.carry]

\* Limbs with the carry out of them as one more limb.
WithCarry(t) == IF t.carry = 0 THEN t.limbs ELSE Append(t.limbs, t.carry)

\* n * k + carry for a small k
BigMulSmall(n, k, carry) == WithCarry(MulSmallLimbs(n, k, 1, Len(n), carry))

\* Limbs lo .. hi of a + b + carry, and the carry out of them.
RECURSIVE AddLimbs(_, _, _, _, _)
AddLimbs(a, b, lo, hi, carry) ==
  IF lo > hi THEN [limbs |-> << >>, carry |-> carry]
  ELSE IF lo = hi
  THEN LET t == Limb(a, lo) + Limb(b, lo) + carry
       IN  [limbs |-> <<t % Base>>, carry |-> t \div Base]
  ELSE LET mid == (lo + hi) \div 2
           low == AddLimbs(a, b, lo, mid, carry)
           high == AddLimbs(a, b, mid + 1, hi, low.carry)
       IN  [limbs |-> low.limbs \o high.limbs, carry |-> high.carry]

\* a + b + carry
BigAdd(a, b, carry) ==
  WithCarry(AddLimbs(a, b, 1, IF Len(a) > Len(b) THEN Len(a) ELSE Len(b), carry))

\* a times the limbs lo .. hi of b
RECURSIVE MulLimbs(_, _, _, _)
MulLimbs(a, b, lo, hi) ==
  IF lo > hi THEN << >>
  ELSE IF lo = hi THEN BigMulSmall(a, b[lo], 0)
  ELSE LET mid == (lo + hi) \div 2
           low == MulLimbs(a, b, lo, mid)
           high == MulLimbs(a, b, mid + 1, hi)
       IN  IF Len(low) + Len(high) = 0 THEN << >>
           ELSE BigAdd(low, [i \in 1..(mid - lo + 1) |-> 0] \o high, 0)

BigMul(a, b) == IF Len(a) = 0 \/ Len(b) = 0 THEN << >> ELSE MulLimbs(a, b, 1, Len(b))

\* The highest of the positions lo .. hi where n has a limb other than 0, or 0.
RECURSIVE TopLimb(_, _, _)
TopLimb(n, lo, hi) ==
  IF lo > hi THEN 0
  ELSE IF lo = hi THEN (IF n[lo] # 0 THEN lo ELSE 0)
  ELSE LET top == TopLimb(n, ((lo + hi) \div 2) + 1, hi)
       IN  IF top # 0 THEN top ELSE TopLimb(n, lo, (lo + hi) \div 2)

\* n without leading zero limbs
BigTrim(n) == SubSeq(n, 1, TopLimb(n, 1, Len(n)))

RECURSIVE SmallBitLen(_)
SmallBitLen(k) == IF k = 0 THEN 0 ELSE 1 + SmallBitLen(k \div 2)

BitLen(n) == LET t == BigTrim(n) IN IF t = << >> THEN 0 ELSE 15 * (Len(t) - 1) + SmallBitLen(t[Len(t)])

Bit(n, i) == IF i < 0 THEN 0 ELSE (Limb(n, (i \div 15) + 1) \div 2^(i % 15)) % 2

LowZero(n, i) ==
  i <= 0 \/ (/\ \A j \in 1..(i \div 15) : Limb(n, j) = 0
             /\ Limb(n, (i \div 15) + 1) % 2^(i % 15) = 0)

\* n \div 2^s
ShiftRight(n, s) ==
  BigTrim([j \in 1..(Len(n) - (s \div 15)) |->
             (Limb(n, (s \div 15) + j) \div 2^(s % 15))
             + (Limb(n, (s \div 15) + j + 1) % 2^(s % 15)) * 2^(15 - (s % 15))])

RECURSIVE BigToInt(_)
BigToInt(n) == IF n = << >> THEN 0 ELSE n[1] + Base * BigToInt(Tail(n))

RECURSIVE IntToBig(_)
IntToBig(k) == IF k = 0 THEN << >> ELSE <<k % Base>> \o IntToBig(k \div Base)

\* 1 when a > b, -1 when a < b, 0 when equal, on the limbs lo .. hi.
RECURSIVE BigCmpFrom(_, _, _, _)
BigCmpFrom(a, b, lo, hi) ==
  IF lo > hi THEN 0
  ELSE IF lo = hi
  THEN (IF Limb(a, lo) > Limb(b, lo) THEN 1 ELSE IF Limb(a, lo) < Limb(b, lo) THEN -1 ELSE 0)
  ELSE LET top == BigCmpFrom(a, b, ((lo + hi) \div 2) + 1, hi)
       IN  IF top # 0 THEN top ELSE BigCmpFrom(a, b, lo, (lo + hi) \div 2)

BigCmp(a, b) == BigCmpFrom(a, b, 1, IF Len(a) > Len(b) THEN Len(a) ELSE Len(b))

\* Limbs lo .. hi of a - b - borrow, and the borrow out of them.
RECURSIVE SubLimbs(_, _, _, _, _)
SubLimbs(a, b, lo, hi, borrow) ==
  IF lo > hi THEN [limbs |-> << >>, borrow |-> borrow]
  ELSE IF lo = hi
  THEN LET t == a[lo] - Limb(b, lo) - borrow
       IN  [limbs |-> <<IF t < 0 THEN t + Base ELSE t>>, borrow |-> IF t < 0 THEN 1 ELSE 0]
  ELSE LET mid == (lo + hi) \div 2
           low == SubLimbs(a, b, lo, mid, borrow)
           high == SubLimbs(a, b, mid + 1, hi, low.borrow)
       IN  [limbs |-> low.limbs \o high.limbs, borrow |-> high.borrow]

\* a - b for a >= b
BigSub(a, b, borrow) == SubLimbs(a, b, 1, Len(a), borrow).limbs

ShiftLeft(n, s) ==
  IF s <= 0 THEN n ELSE BigMulSmall([i \in 1..(s \div 15) |-> 0] \o n, 2^(s % 15), 0)

\* 10 ** k
Square(n) == BigMul(n, n)

RECURSIVE BigPow10(_)
BigPow10(k) ==
  IF k = 0 THEN <<1>>
  ELSE BigMulSmall(Square(BigPow10(k \div 2)), IF k % 2 = 0 THEN 1 ELSE 10, 0)

\* n / 2^s rounded to the nearest integer, a tie to the even one.
RoundShift(n, s) ==
  IF s <= 0 THEN ShiftLeft(n, -s)
  ELSE LET low == ShiftRight(n, s)
           up == Bit(n, s - 1) = 1 /\ (~LowZero(n, s - 1) \/ Bit(n, s) = 1)
       IN  IF up THEN BigAdd(low, <<1>>, 0) ELSE low

RECURSIVE ScaleUp(_, _, _)
ScaleUp(p, q, k) == IF p >= q THEN [num |-> p, den |-> q, k |-> k] ELSE ScaleUp(p + p, q, k - 1)
RECURSIVE ScaleDown(_, _, _)
ScaleDown(p, q, k) ==
  IF p - q < q THEN [num |-> p, den |-> q, k |-> k] ELSE ScaleDown(p, q + q, k + 1)

\* The next n (at most 15) binary digits of r / den (r < den), as a number,
\* and what is left of r.
RECURSIVE BinaryDigits(_, _, _, _)

\* The next digit is 1 when twice (2 * r) reaches den.
NextDigit(twice, den, n, acc) ==
  IF BigCmp(twice, den) >= 0
  THEN BinaryDigits(BigSub(twice, den, 0), den, n - 1, acc + acc + 1)
  ELSE BinaryDigits(twice, den, n - 1, acc + acc)

BinaryDigits(r, den, n, acc) ==
  IF n = 0 THEN [digits |-> acc, r |-> r] ELSE NextDigit(BigAdd(r, r, 0), den, n, acc)

\* The first n binary digits of r / den (r < den), as limbs, and what is
\* left of r.
RECURSIVE BinaryLimbs(_, _, _)

\* The digits after the top limb, n more.
LimbsAfter(top, den, n) ==
  LET rest == BinaryLimbs(top.r, den, n)
  IN  [digits |-> rest.digits \o <<top.digits>>, r |-> rest.r]

BinaryLimbs(r, den, n) ==
  IF n = 0 THEN [digits |-> << >>, r |-> r]
  ELSE LimbsAfter(BinaryDigits(r, den, ((n - 1) % 15) + 1, 0), den,
                  n - (((n - 1) % 15) + 1))

\* The exponents of a double: the last bit of a normal mantissa of 53 bits
\* is worth at least 2^MinExp2 (the subnormal numbers count in that unit),
\* and 2^MaxExp2 and more is infinity.
MantissaBits == 53
MinExp2 == -1074
MaxExp2 == 1024

\* A float: m * 2^e, or infinity.  dir says on which side of the value it was
\* made from it lies.
FloatOf(m, e, dir) ==
  IF BitLen(m) + e > MaxExp2 THEN [kind |-> "inf", m |-> << >>, e |-> 0, dir |-> 1]
  ELSE [kind |-> "finite", m |-> BigTrim(m), e |-> IF BigTrim(m) = << >> THEN 0 ELSE e,
        dir |-> dir]

\* The digits d of the mantissa, worth 2^e each, rounded by what is left
\* of the quotient: cmp compares twice the rest with the denominator.
DoubleRounded(d, e, cmp) ==
  LET up == cmp > 0 \/ (cmp = 0 /\ Limb(d.digits, 1) % 2 = 1)
  IN  FloatOf(IF up THEN BigAdd(d.digits, <<1>>, 0) ELSE d.digits, e,
              IF BigTrim(d.r) = << >> THEN 0 ELSE IF up THEN 1 ELSE -1)

\* The double nearest num / den < 1 with bits binary digits worth 2^e each.
DoubleDigits(d, den, e) == DoubleRounded(d, e, BigCmp(BigAdd(d.r, d.r, 0), den))

\* The exponent of the last bit of the mantissa of a value in 2^k .. 2^(k + 1).
LastBit(k) == IF k - (MantissaBits - 1) < MinExp2 THEN MinExp2 ELSE k - (MantissaBits - 1)

\* The double nearest p / q with 2^k <= p / q < 2^(k + 1).
DoubleAt(p, q, k) ==
  IF k - LastBit(k) + 1 < 0 THEN FloatOf(<< >>, 0, -1)
  ELSE DoubleDigits(BinaryLimbs(ShiftLeft(p, -(k + 1)), ShiftLeft(q, k + 1),
                                k - LastBit(k) + 1),
                    ShiftLeft(q, k + 1), LastBit(k))

\* The double nearest p / q with 2^(k0 - 1) <= p / q < 2^(k0 + 1).
DoubleNear(p, q, k0) ==
  DoubleAt(p, q, IF BigCmp(ShiftLeft(p, -k0), ShiftLeft(q, k0)) >= 0 THEN k0 ELSE k0 - 1)

\* The double nearest p / q (limbs, p > 0, q > 0), a tie to the even one:
\* with 2^k <= p / q < 2^(k + 1) the mantissa is the first bits of p / q down
\* to the one worth 2^e.
Double(p, q) == DoubleNear(p, q, BitLen(p) - BitLen(q))

\* The double nearest m * 2^e.
FloatNear(m, e) ==
  LET fit == BitLen(m) - MantissaBits
      s == IF e + fit < MinExp2 THEN MinExp2 - e ELSE fit
  IN  IF s <= 0 THEN FloatOf(m, e, 0) ELSE FloatOf(RoundShift(m, s), e + s, 0)

\* a * b of two finite floats, rounded to the nearest double.
DoubleMul(a, b) == FloatNear(BigMul(a.m, b.m), a.e + b.e)

\* round(x, 2) of a finite float, counted in 1 / scale (scale = 100): the
\* integer nearest x * scale, a tie to the even one.
RoundDouble(x, scale) == BigToInt(RoundShift(BigMulSmall(x.m, scale, 0), -x.e))

\* On which side of r / den + (a multiple of 2^-n) the nearest number of n
\* more binary digits lies: 1 above, -1 below, 0 when it is that number.
RECURSIVE NearestSide(_, _, _, _)
NearestSide(r, den, n, odd) ==
  IF n = 0
  THEN (IF r = 0 THEN 0 ELSE IF r > den - r \/ (r = den - r /\ odd) THEN 1 ELSE -1)
  ELSE IF r >= den - r THEN NearestSide(r - (den - r), den, n - 1, TRUE)
  ELSE NearestSide(r + r, den, n - 1, FALSE)

\* On which side of p / q its float lies: Double(p, q).dir.
DoubleDir(p, q) ==
  LET nz == IF p < q THEN ScaleUp(p, q, 0) ELSE ScaleDown(p, q, 0)
  IN  NearestSide(nz.num - nz.den, nz.den, 52, TRUE)

\* round(x, 2) and round(x, 4) as report.py uses them: x is the float nearest
\* num / (den * scale) and the result counts units of 1 / scale.  Python
\* rounds the float's exact binary value, so a quotient that is in decimal
\* half way between two results goes to the side on which its float lies, and
\* to the even neighbour only when the float is the quotient itself.
RoundDiv(num, den, scale) ==
  LET q == num \div den
      r == num % den
  IN  IF r < den - r THEN q
      ELSE IF r > den - r THEN q + 1
      ELSE LET dir == DoubleDir(num, den * scale)
           IN  IF dir < 0 THEN q
               ELSE IF dir > 0 THEN q + 1
               ELSE IF q % 2 = 0 THEN q ELSE q + 1

(***************************************************************************)
(* Geometry: shapely and pyproj as used by the code.                       *)
(***************************************************************************)
GridW == <<40, 20, 1, 10>>   \* column widths, 1e-8 degree
GridH == <<1, 1>>            \* row heights, 1e-5 degree
Cells == (DOMAIN GridW) \X (DOMAIN GridH)
CellSeq ==
  <<  <<1, 1>>, <<2, 1>>, <<3, 1>>, <<4, 1>>, <<1, 2>>, <<2, 2>>, <<3, 2>>, <<4, 2>>  >>

\* Western edge of a column (1e-8 degree) and southern edge of a row (1e-5
\* degree).
EdgeX(x) == SumSeq([i \in 1..(x - 1) |-> GridW[i]])
EdgeY(y) == SumSeq([i \in 1..(y - 1) |-> GridH[i]])

\* geometry.area of a degree geometry, 1e-13 square degree.
AreaDeg(g) ==
  SumSeq([i \in DOMAIN CellSeq |->
            IF CellSeq[i] \in g THEN GridW[CellSeq[i][1]] * GridH[CellSeq[i][2]] ELSE 0])

\* Boundary of a cell set: the edges with the set on one side only.
HorizEdges(g, c) ==
  (IF <<c[1], c[2] + 1>> \in g THEN 0 ELSE 1) + (IF <<c[1], c[2] - 1>> \in g THEN 0 ELSE 1)
VertEdges(g, c) ==
  (IF <<c[1] + 1, c[2]>> \in g THEN 0 ELSE 1) + (IF <<c[1] - 1, c[2]>> \in g THEN 0 ELSE 1)

\* Boundary length running west-east (1e-8 degree) and south-north (1e-5
\* degree).
HorizDeg(g) ==
  SumSeq([i \in DOMAIN CellSeq |->
            IF CellSeq[i] \in g THEN HorizEdges(g, CellSeq[i]) * GridW[CellSeq[i][1]] ELSE 0])
VertDeg(g) ==
  SumSeq([i \in DOMAIN CellSeq |->
            IF CellSeq[i] \in g THEN VertEdges(g, CellSeq[i]) * GridH[CellSeq[i][2]] ELSE 0])

\* geometry.length of a degree geometry, 1e-8 degree.
LengthDeg(g) == HorizDeg(g) + 1000 * VertDeg(g)

\* shapely.ops.unary_union of a list of geometries.
UnaryUnion(geoms) == UNION Range(geoms)

\* Micrometres per 1e-8 degree of longitude and millimetres per 1e-5 degree
\* of latitude in EPSG:31984 near latitude 20 S.
UmPerUnitLon == 1044
MmPerUnitLat == 1107

\* One cell reprojected to EPSG:31984: a rectangle, its width in micrometres
\* and its height in millimetres.
ToMetricCell(c) ==
  [ix |-> c[1], iy |-> c[2],
   w |-> GridW[c[1]] * UmPerUnitLon, h |-> GridH[c[2]] * MmPerUnitLat]

\* Geometry reprojected from EPSG:4326 to EPSG:31984 and back.
ToMetric(g) == {ToMetricCell(c) : c \in g}
ToDegrees(mg) == {<<m.ix, m.iy>> : m \in mg}

\* geometry.area of a metric geometry, 1e-9 m2 (micrometre x millimetre).
AreaMetric(mg) ==
  SumSeq([i \in DOMAIN CellSeq |->
            LET m == ToMetricCell(CellSeq[i])
            IN  IF m \in mg THEN m.w * m.h ELSE 0])

\* geometry.length of a metric geometry, micrometres.
LengthMetric(mg) ==
  LET g == ToDegrees(mg)
  IN  SumSeq([i \in DOMAIN CellSeq |->
                LET m == ToMetricCell(CellSeq[i])
                IN  IF m \in mg
                    THEN HorizEdges(g, CellSeq[i]) * m.w
                         + VertEdges(g, CellSeq[i]) * m.h * 1000
                    ELSE 0])

\* geometry.centroid: the area-weighted mean of the cell centres, as the
\* numerators x2, y2 over the denominator 2 * w (x in 1e-8 degree, y in 1e-5
\* degree).
Centroid(g) ==
  [x2 |-> SumSeq([i \in DOMAIN CellSeq |->
                    LET c == CellSeq[i]
                    IN  IF c \in g
                        THEN GridW[c[1]] * GridH[c[2]] * (2 * EdgeX(c[1]) + GridW[c[1]])
                        ELSE 0]),
   y2 |-> SumSeq([i \in DOMAIN CellSeq |->
                    LET c == CellSeq[i]
                    IN  IF c \in g
                        THEN GridW[c[1]] * GridH[c[2]] * (2 * EdgeY(c[2]) + GridH[c[2]])
                        ELSE 0]),
   w |-> AreaDeg(g)]

SetMin(S) == CHOOSE m \in S : \A n \in S : m <= n
SetMax(S) == CHOOSE m \in S : \A n \in S : m >= n

\* geometry.bounds: (minx, miny, maxx, maxy), x in 1e-8 degree, y in 1e-5
\* degree.
Bounds(g) ==
  << SetMin({EdgeX(c[1]) : c \in g}), SetMin({EdgeY(c[2]) : c \in g}),
     SetMax({EdgeX(c[1]) + GridW[c[1]] : c \in g}),
     SetMax({EdgeY(c[2]) + GridH[c[2]] : c \in g}) >>

(***************************************************************************)
(* Frames.  A frame is the GeoDataFrame (or plain DataFrame) handed to the *)
(* analyzer: geo says whether it has an active geometry column, crs is     *)
(* its coordinate reference system ("none" for a naive frame), rows is the *)
(* sequence of parcels, each with a geometry and one value per column.     *)
(* A cell value is "NaN" (null), "LIST" (an array of several elements, as  *)
(* a list column of the parquet file is read: not hashable, not JSON       *)
(* serialisable, and without a truth value when compared) or a plain       *)
(* scalar.                                                                 *)
(***************************************************************************)
NaN == "NaN"
Unhashable == "LIST"
Scalars == {"A", "B"}
CellValues == {NaN, Unhashable} \cup Scalars

\* sorted(...) over the scalars of the model.
ScalarOrder == <<"A", "B">>

Geometries(frame) == [i \in DOMAIN frame.rows |-> frame.rows[i].geometry]

\* frame[col]
Column(frame, col) == [i \in DOMAIN frame.rows |-> frame.rows[i].attrs[col]]

\* Series.dropna()
DropNa(s) == SelectSeq(s, LAMBDA v : v # NaN)

\* Series.unique() raises TypeError on a value that cannot be hashed.
CanUnique(s) == \A i \in DOMAIN s : s[i] # Unhashable

\* Series.unique(): the distinct values in order of first appearance.
RECURSIVE Unique(_)
Unique(s) ==
  IF s = << >> THEN << >>
  ELSE LET front == Unique(SubSeq(s, 1, Len(s) - 1))
           last == s[Len(s)]
       IN  IF last \in Range(front) THEN front ELSE Append(front, last)

\* GeoDataFrame.to_crs raises on a frame without geometry and on a naive one.
CanReproject(frame) == frame.geo /\ frame.crs # "none"

\* GeoDataFrame.to_crs("EPSG:31984")
ToCrs(frame) ==
  [frame EXCEPT !.crs = "EPSG:31984",
                !.rows = [i \in DOMAIN frame.rows |->
                            [frame.rows[i] EXCEPT !.geometry = ToMetric(@)]]]

(***************************************************************************)
(* TerrainAnalyzer (report.py).  A method is an operator of the frame, the *)
(* cached unified geometry and the count of union computations so far; it  *)
(* gives what the call raised or returned and the new cache and count.     *)
(* The count takes in every computation of a unified geometry: each        *)
(* completed body of unify_lots, and each unary_union of the reprojected   *)
(* parcels in calculate_area and calculate_perimeter.                      *)
(***************************************************************************)
MetersPerDegree == 111320

Result(raised, val, ug, runs) == [raised |-> raised, val |-> val, ug |-> ug, runs |-> runs]

\* TerrainAnalyzer.unify_lots
unify_lots(frame, ug, runs) ==
  IF ~frame.geo
  THEN Result(TRUE, "AttributeError", ug, runs)
  ELSE LET geometries == Geometries(frame)
           unified == IF Len(geometries) = 1 THEN geometries[1]
                      ELSE UnaryUnion(geometries)
       IN  Result(FALSE, unified, Some(unified), runs + 1)

\* "if self.unified_geometry is None: self.unify_lots()"
EnsureUnified(frame, ug, runs) ==
  IF IsNone(ug) THEN unify_lots(frame, ug, runs)
  ELSE Result(FALSE, The(ug), ug, runs)

\* A variant of MetricArea that adds up the parcels' areas.
MetricAreaOfSum(frame) ==
  LET gdf_metric == ToCrs(frame)
  IN  RoundDiv(SumSeq([i \in DOMAIN gdf_metric.rows |->
                         AreaMetric(gdf_metric.rows[i].geometry)]), 10000000, 100)

\* The area measured in EPSG:31984 (0.01 m2): report.py lines 64-72.
MetricArea(frame) ==
  LET gdf_metric == ToCrs(frame)
      area == IF Len(gdf_metric.rows) = 1
              THEN AreaMetric(gdf_metric.rows[1].geometry)
              ELSE AreaMetric(UnaryUnion(Geometries(gdf_metric)))
  IN  RoundDiv(area, 10000000, 100)

\* A variant of FallbackArea with the factor taken once, not squared.
FallbackAreaLinear(unified) ==
  RoundDiv(AreaDeg(unified) * (MetersPerDegree \div 40), 62500000, 100)

\* The fallback area (0.01 m2): report.py lines 80-82.  The area in square
\* degrees is AreaDeg / 1e13, and 111320 is 40 * 2783, so the area in m2 is
\* AreaDeg * 2783 * 2783 / 6250000000.
FallbackArea(unified) ==
  RoundDiv(AreaDeg(unified) * (MetersPerDegree \div 40) * (MetersPerDegree \div 40),
           62500000, 100)

\* TerrainAnalyzer.calculate_area.  The metric branch calls unary_union on
\* the reprojected parcels when there are several (report.py line 69),
\* whether or not the unified geometry is cached.
calculate_area(frame, ug, runs) ==
  LET first == EnsureUnified(frame, ug, runs)
  IN  IF ~first.raised /\ CanReproject(frame)
      THEN Result(FALSE, MetricArea(frame), first.ug,
                  IF Len(frame.rows) = 1 THEN first.runs ELSE first.runs + 1)
      ELSE LET again == EnsureUnified(frame, first.ug, first.runs)
           IN  IF again.raised THEN again
               ELSE Result(FALSE, FallbackArea(The(again.ug)), again.ug, again.runs)

\* The perimeter measured in EPSG:31984 (0.01 m): report.py lines 96-104.
MetricPerimeter(frame) ==
  LET gdf_metric == ToCrs(frame)
      perimeter == IF Len(gdf_metric.rows) = 1
                   THEN LengthMetric(gdf_metric.rows[1].geometry)
                   ELSE LengthMetric(UnaryUnion(Geometries(gdf_metric)))
  IN  RoundDiv(perimeter, 10000, 100)

\* The fallback perimeter (0.01 m): report.py lines 111-113.
FallbackPerimeter(unified) == RoundDiv(LengthDeg(unified) * MetersPerDegree, 1000000, 100)

\* TerrainAnalyzer.calculate_perimeter.  The metric branch calls unary_union
\* on the reprojected parcels when there are several (report.py line 101).
calculate_perimeter(frame, ug, runs) ==
  LET first == EnsureUnified(frame, ug, runs)
  IN  IF ~first.raised /\ CanReproject(frame)
      THEN Result(FALSE, MetricPerimeter(frame), first.ug,
                  IF Len(frame.rows) = 1 THEN first.runs ELSE first.runs + 1)
      ELSE LET again == EnsureUnified(frame, first.ug, first.runs)
           IN  IF again.raised THEN again
               ELSE Result(FALSE, FallbackPerimeter(The(again.ug)), again.ug, again.runs)

zoning_columns ==
  <<"zona", "zoneamento", "zone", "ZONA", "ZONEAMENTO", "uso", "uso_solo", "tipo_zona",
    "categoria">>
param_columns ==
  <<"coeficiente", "ca", "coef_aproveitamento", "taxa_ocupacao", "to", "gabarito",
    "altura_max", "recuo", "testada_min">>
info_columns ==
  <<"matricula", "inscricao", "proprietario", "endereco", "logradouro", "numero",
    "quadra", "lote">>

StatusMsg == "Informacoes de zoneamento nao disponiveis nos dados"

\* "values[0] if len(values) == 1 else values"
Entry(values) ==
  IF Len(values) = 1 THEN [list |-> FALSE, v |-> <<values[1]>>]
  ELSE [list |-> TRUE, v |-> values]

\* The values the zoning loop reads for a column: report.py line 134.
ZoningValues(frame, col) == Unique(DropNa(Column(frame, col)))

\* The values the parameter loop reads for a column: report.py line 146.
ParamValues(frame, col) == DropNa(Column(frame, col))

\* A variant of OrStatus that returns the mapping as it is.
OrStatusNever(zoning_info) == zoning_info

\* "if not zoning_info: zoning_info['status'] = ..."
OrStatus(zoning_info) ==
  IF DOMAIN zoning_info = {} THEN [k \in {"status"} |-> Entry(<<StatusMsg>>)]
  ELSE zoning_info

\* TerrainAnalyzer.extract_zoning_info: a mapping from key to entry.
extract_zoning_info(frame) ==
  LET zcols == {c \in Range(zoning_columns) : c \in frame.columns}
      pcols == {c \in Range(param_columns) : c \in frame.columns}
      zkeys == {c \in zcols : ZoningValues(frame, c) # << >>}
      pkeys == {c \in pcols : ParamValues(frame, c) # << >>}
  IN  IF \E c \in zcols : ~CanUnique(DropNa(Column(frame, c)))
      THEN [k \in {"error"} |-> Entry(<<"TypeError">>)]
      ELSE OrStatus([k \in zkeys \cup pkeys |->
                       IF k \in zkeys THEN Entry(ZoningValues(frame, k))
                       ELSE Entry(ParamValues(frame, k))])

\* The additional-information loop of calculate_info: report.py lines 172-184.
AdditionalRaises(frame) ==
  \E c \in Range(info_columns) :
     c \in frame.columns /\ ~CanUnique(DropNa(Column(frame, c)))

AdditionalInfo(frame) ==
  LET keys == {c \in Range(info_columns) :
                 c \in frame.columns /\ Unique(DropNa(Column(frame, c))) # << >>}
  IN  [k \in keys |-> Unique(DropNa(Column(frame, k)))]

\* A variant of ErrorInfo that drops the parcel count.
ErrorInfoWithoutCount(frame, msg) == [error |-> msg]

\* The mapping calculate_info returns from its except clause.
ErrorInfo(frame, msg) == [error |-> msg, total_lotes |-> Len(frame.rows)]

\* TerrainAnalyzer.calculate_info
calculate_info(frame, ug, runs) ==
  LET a == calculate_area(frame, ug, runs)
      p == calculate_perimeter(frame, a.ug, a.runs)
  IN  IF a.raised THEN Result(FALSE, ErrorInfo(frame, a.val), a.ug, a.runs)
      ELSE IF p.raised THEN Result(FALSE, ErrorInfo(frame, p.val), p.ug, p.runs)
      ELSE IF AdditionalRaises(frame)
      THEN Result(FALSE, ErrorInfo(frame, "TypeError"), p.ug, p.runs)
      ELSE Result(FALSE,
                  [total_lotes |-> Len(frame.rows),
                   area_total_m2 |-> a.val,
                   area_total_hectares |-> RoundDiv(a.val, 100, 10000),
                   perimetro_m |-> p.val,
                   zoneamento |-> extract_zoning_info(frame),
                   informacoes_adicionais |->
                     IF AdditionalInfo(frame) = << >> THEN <<"Nao disponivel">>
                     ELSE AdditionalInfo(frame)],
                  p.ug, p.runs)

\* TerrainAnalyzer.get_centroid: None when anything raised.
get_centroid(frame, ug, runs) ==
  LET u == EnsureUnified(frame, ug, runs)
  IN  IF u.raised \/ The(u.ug) = {} THEN Result(FALSE, None, u.ug, u.runs)
      ELSE Result(FALSE, Some(Centroid(The(u.ug))), u.ug, u.runs)

\* The bounds of an empty geometry: four NaN.
EmptyBounds == <<"nan", "nan", "nan", "nan">>

\* TerrainAnalyzer.get_bounds: None when anything raised.
get_bounds(frame, ug, runs) ==
  LET u == EnsureUnified(frame, ug, runs)
  IN  IF u.raised THEN Result(FALSE, None, u.ug, u.runs)
      ELSE Result(FALSE, Some(IF The(u.ug) = {} THEN EmptyBounds ELSE Bounds(The(u.ug))),
                  u.ug, u.runs)

(***************************************************************************)
(* ZoningCalculator (report.py).  A parameter value is a number (counted   *)
(* in thousandths), a string (a sequence of characters), None or a list.   *)
(***************************************************************************)
Num(n) == [t |-> "num", n |-> n, s |-> << >>, items |-> << >>]
Str(s) == [t |-> "str", n |-> 0, s |-> s, items |-> << >>]
NoneValue == [t |-> "none", n |-> 0, s |-> << >>, items |-> << >>]
List(items) == [t |-> "list", n |-> 0, s |-> << >>, items |-> items]

\* A character is a string of one character; a character outside ASCII,
\* which a module cannot hold, is written by its code point, as "U+00A0".
Digits == <<"0", "1", "2", "3", "4", "5", "6", "7", "8", "9">>

\* The decimal digits of the other scripts (Unicode 14, category Nd) that
\* float() reads as the ASCII digits: OtherDigits[d + 1] are those worth d.
OtherDigits ==
  <<{"U+0660", "U+06F0", "U+07C0", "U+0966", "U+09E6", "U+0A66", "U+0AE6",
    "U+0B66", "U+0BE6", "U+0C66", "U+0CE6", "U+0D66", "U+0DE6", "U+0E50",
    "U+0ED0", "U+0F20", "U+1040", "U+1090", "U+17E0", "U+1810", "U+1946",
    "U+19D0", "U+1A80", "U+1A90", "U+1B50", "U+1BB0", "U+1C40", "U+1C50",
    "U+A620", "U+A8D0", "U+A900", "U+A9D0", "U+A9F0", "U+AA50", "U+ABF0",
    "U+FF10", "U+104A0", "U+10D30", "U+11066", "U+110F0", "U+11136",
    "U+111D0", "U+112F0", "U+11450", "U+114D0", "U+11650", "U+116C0",
    "U+11730", "U+118E0", "U+11950", "U+11C50", "U+11D50", "U+11DA0",
    "U+16A60", "U+16AC0", "U+16B50", "U+1D7CE", "U+1D7D8", "U+1D7E2",
    "U+1D7EC", "U+1D7F6", "U+1E140", "U+1E2F0", "U+1E950", "U+1FBF0"},
   {"U+0661", "U+06F1", "U+07C1", "U+0967", "U+09E7", "U+0A67", "U+0AE7",
    "U+0B67", "U+0BE7", "U+0C67", "U+0CE7", "U+0D67", "U+0DE7", "U+0E51",
    "U+0ED1", "U+0F21", "U+1041", "U+1091", "U+17E1", "U+1811", "U+1947",
    "U+19D1", "U+1A81", "U+1A91", "U+1B51", "U+1BB1", "U+1C41", "U+1C51",
    "U+A621", "U+A8D1", "U+A901", "U+A9D1", "U+A9F1", "U+AA51", "U+ABF1",
    "U+FF11", "U+104A1", "U+10D31", "U+11067", "U+110F1", "U+11137",
    "U+111D1", "U+112F1", "U+11451", "U+114D1", "U+11651", "U+116C1",
    "U+11731", "U+118E1", "U+11951", "U+11C51", "U+11D51", "U+11DA1",
    "U+16A61", "U+16AC1", "U+16B51", "U+1D7CF", "U+1D7D9", "U+1D7E3",
    "U+1D7ED", "U+1D7F7", "U+1E141", "U+1E2F1", "U+1E951", "U+1FBF1"},
   {"U+0662", "U+06F2", "U+07C2", "U+0968", "U+09E8", "U+0A68", "U+0AE8",
    "U+0B68", "U+0BE8", "U+0C68", "U+0CE8", "U+0D68", "U+0DE8", "U+0E52",
    "U+0ED2", "U+0F22", "U+1042", "U+1092", "U+17E2", "U+1812", "U+1948",
    "U+19D2", "U+1A82", "U+1A92", "U+1B52", "U+1BB2", "U+1C42", "U+1C52",
    "U+A622", "U+A8D2", "U+A902", "U+A9D2", "U+A9F2", "U+AA52", "U+ABF2",
    "U+FF12", "U+104A2", "U+10D32", "U+11068", "U+110F2", "U+11138",
    "U+111D2", "U+112F2", "U+11452", "U+114D2", "U+11652", "U+116C2",
    "U+11732", "U+118E2", "U+11952", "U+11C52", "U+11D52", "U+11DA2",
    "U+16A62", "U+16AC2", "U+16B52", "U+1D7D0", "U+1D7DA", "U+1D7E4",
    "U+1D7EE", "U+1D7F8", "U+1E142", "U+1E2F2", "U+1E952", "U+1FBF2"},
   {"U+0663", "U+06F3", "U+07C3", "U+0969", "U+09E9", "U+0A69", "U+0AE9",
    "U+0B69", "U+0BE9", "U+0C69", "U+0CE9", "U+0D69", "U+0DE9", "U+0E53",
    "U+0ED3", "U+0F23", "U+1043", "U+1093", "U+17E3", "U+1813", "U+1949",
    "U+19D3", "U+1A83", "U+1A93", "U+1B53", "U+1BB3", "U+1C43", "U+1C53",
    "U+A623", "U+A8D3", "U+A903", "U+A9D3", "U+A9F3", "U+AA53", "U+ABF3",
    "U+FF13", "U+104A3", "U+10D33", "U+11069", "U+110F3", "U+11139",
    "U+111D3", "U+112F3", "U+11453", "U+114D3", "U+11653", "U+116C3",
    "U+11733", "U+118E3", "U+11953", "U+11C53", "U+11D53", "U+11DA3",
    "U+16A63", "U+16AC3", "U+16B53", "U+1D7D1", "U+1D7DB", "U+1D7E5",
    "U+1D7EF", "U+1D7F9", "U+1E143", "U+1E2F3", "U+1E953", "U+1FBF3"},
   {"U+0664", "U+06F4", "U+07C4", "U+096A", "U+09EA", "U+0A6A", "U+0AEA",
    "U+0B6A", "U+0BEA", "U+0C6A", "U+0CEA", "U+0D6A", "U+0DEA", "U+0E54",
    "U+0ED4", "U+0F24", "U+1044", "U+1094", "U+17E4", "U+1814", "U+194A",
    "U+19D4", "U+1A84", "U+1A94", "U+1B54", "U+1BB4", "U+1C44", "U+1C54",
    "U+A624", "U+A8D4", "U+A904", "U+A9D4", "U+A9F4", "U+AA54", "U+ABF4",
    "U+FF14", "U+104A4", "U+10D34", "U+1106A", "U+110F4", "U+1113A",
    "U+111D4", "U+112F4", "U+11454", "U+114D4", "U+11654", "U+116C4",
    "U+11734", "U+118E4", "U+11954", "U+11C54", "U+11D54", "U+11DA4",
    "U+16A64", "U+16AC4", "U+16B54", "U+1D7D2", "U+1D7DC", "U+1D7E6",
    "U+1D7F0", "U+1D7FA", "U+1E144", "U+1E2F4", "U+1E954", "U+1FBF4"},
   {"U+0665", "U+06F5", "U+07C5", "U+096B", "U+09EB", "U+0A6B", "U+0AEB",
    "U+0B6B", "U+0BEB", "U+0C6B", "U+0CEB", "U+0D6B", "U+0DEB", "U+0E55",
    "U+0ED5", "U+0F25", "U+1045", "U+1095", "U+17E5", "U+1815", "U+194B",
    "U+19D5", "U+1A85", "U+1A95", "U+1B55", "U+1BB5", "U+1C45", "U+1C55",
    "U+A625", "U+A8D5", "U+A905", "U+A9D5", "U+A9F5", "U+AA55", "U+ABF5",
    "U+FF15", "U+104A5", "U+10D35", "U+1106B", "U+110F5", "U+1113B",
    "U+111D5", "U+112F5", "U+11455", "U+114D5", "U+11655", "U+116C5",
    "U+11735", "U+118E5", "U+11955", "U+11C55", "U+11D55", "U+11DA5",
    "U+16A65", "U+16AC5", "U+16B55", "U+1D7D3", "U+1D7DD", "U+1D7E7",
    "U+1D7F1", "U+1D7FB", "U+1E145", "U+1E2F5", "U+1E955", "U+1FBF5"},
   {"U+0666", "U+06F6", "U+07C6", "U+096C", "U+09EC", "U+0A6C", "U+0AEC",
    "U+0B6C", "U+0BEC", "U+0C6C", "U+0CEC", "U+0D6C", "U+0DEC", "U+0E56",
    "U+0ED6", "U+0F26", "U+1046", "U+1096", "U+17E6", "U+1816", "U+194C",
    "U+19D6", "U+1A86", "U+1A96", "U+1B56", "U+1BB6", "U+1C46", "U+1C56",
    "U+A626", "U+A8D6", "U+A906", "U+A9D6", "U+A9F6", "U+AA56", "U+ABF6",
    "U+FF16", "U+104A6", "U+10D36", "U+1106C", "U+110F6", "U+1113C",
    "U+111D6", "U+112F6", "U+11456", "U+114D6", "U+11656", "U+116C6",
    "U+11736", "U+118E6", "U+11956", "U+11C56", "U+11D56", "U+11DA6",
    "U+16A66", "U+16AC6", "U+16B56", "U+1D7D4", "U+1D7DE", "U+1D7E8",
    "U+1D7F2", "U+1D7FC", "U+1E146", "U+1E2F6", "U+1E956", "U+1FBF6"},
   {"U+0667", "U+06F7", "U+07C7", "U+096D", "U+09ED", "U+0A6D", "U+0AED",
    "U+0B6D", "U+0BED", "U+0C6D", "U+0CED", "U+0D6D", "U+0DED", "U+0E57",
    "U+0ED7", "U+0F27", "U+1047", "U+1097", "U+17E7", "U+1817", "U+194D",
    "U+19D7", "U+1A87", "U+1A97", "U+1B57", "U+1BB7", "U+1C47", "U+1C57",
    "U+A627", "U+A8D7", "U+A907", "U+A9D7", "U+A9F7", "U+AA57", "U+ABF7",
    "U+FF17", "U+104A7", "U+10D37", "U+1106D", "U+110F7", "U+1113D",
    "U+111D7", "U+112F7", "U+11457", "U+114D7", "U+11657", "U+116C7",
    "U+11737", "U+118E7", "U+11957", "U+11C57", "U+11D57", "U+11DA7",
    "U+16A67", "U+16AC7", "U+16B57", "U+1D7D5", "U+1D7DF", "U+1D7E9",
    "U+1D7F3", "U+1D7FD", "U+1E147", "U+1E2F7", "U+1E957", "U+1FBF7"},
   {"U+0668", "U+06F8", "U+07C8", "U+096E", "U+09EE", "U+0A6E", "U+0AEE",
    "U+0B6E", "U+0BEE", "U+0C6E", "U+0CEE", "U+0D6E", "U+0DEE", "U+0E58",
    "U+0ED8", "U+0F28", "U+1048", "U+1098", "U+17E8", "U+1818", "U+194E",
    "U+19D8", "U+1A88", "U+1A98", "U+1B58", "U+1BB8", "U+1C48", "U+1C58",
    "U+A628", "U+A8D8", "U+A908", "U+A9D8", "U+A9F8", "U+AA58", "U+ABF8",
    "U+FF18", "U+104A8", "U+10D38", "U+1106E", "U+110F8", "U+1113E",
    "U+111D8", "U+112F8", "U+11458", "U+114D8", "U+11658", "U+116C8",
    "U+11738", "U+118E8", "U+11958", "U+11C58", "U+11D58", "U+11DA8",
    "U+16A68", "U+16AC8", "U+16B58", "U+1D7D6", "U+1D7E0", "U+1D7EA",
    "U+1D7F4", "U+1D7FE", "U+1E148", "U+1E2F8", "U+1E958", "U+1FBF8"},
   {"U+0669", "U+06F9", "U+07C9", "U+096F", "U+09EF", "U+0A6F", "U+0AEF",
    "U+0B6F", "U+0BEF", "U+0C6F", "U+0CEF", "U+0D6F", "U+0DEF", "U+0E59",
    "U+0ED9", "U+0F29", "U+1049", "U+1099", "U+17E9", "U+1819", "U+194F",
    "U+19D9", "U+1A89", "U+1A99", "U+1B59", "U+1BB9", "U+1C49", "U+1C59",
    "U+A629", "U+A8D9", "U+A909", "U+A9D9", "U+A9F9", "U+AA59", "U+ABF9",
    "U+FF19", "U+104A9", "U+10D39", "U+1106F", "U+110F9", "U+1113F",
    "U+111D9", "U+112F9", "U+11459", "U+114D9", "U+11659", "U+116C9",
    "U+11739", "U+118E9", "U+11959", "U+11C59", "U+11D59", "U+11DA9",
    "U+16A69", "U+16AC9", "U+16B59", "U+1D7D7", "U+1D7E1", "U+1D7EB",
    "U+1D7F5", "U+1D7FF", "U+1E149", "U+1E2F9", "U+1E959", "U+1FBF9"}>>

IsDigit(ch) == \E i \in DOMAIN Digits : ch = Digits[i] \/ ch \in OtherDigits[i]
DigitOf(ch) == (CHOOSE i \in DOMAIN Digits : ch = Digits[i] \/ ch \in OtherDigits[i]) - 1

\* The value of a sequence of at most nine decimal digits.
RECURSIVE Decimal(_)
Decimal(ds) ==
  IF ds = << >> THEN 0 ELSE 10 * Decimal(SubSeq(ds, 1, Len(ds) - 1)) + DigitOf(ds[Len(ds)])

\* The value of a sequence of decimal digits, in limbs: by halves, the
\* front half times the power of ten of the length of the back half.
RECURSIVE BigDecimal(_)
BigDecimal(ds) ==
  IF Len(ds) <= 4 THEN IntToBig(Decimal(ds))
  ELSE LET front == SubSeq(ds, 1, Len(ds) \div 2)
           back == SubSeq(ds, (Len(ds) \div 2) + 1, Len(ds))
       IN  BigTrim(BigAdd(BigMul(BigDecimal(front), BigPow10(Len(back))),
                          BigDecimal(back), 0))

\* Where the first character of a set is in a string, or Len + 1.
FirstOf(s, chars) ==
  IF \E i \in DOMAIN s : s[i] \in chars
  THEN CHOOSE i \in DOMAIN s : s[i] \in chars /\ \A j \in 1..(i - 1) : s[j] \notin chars
  ELSE Len(s) + 1

\* Where the decimal point of a string is, or Len + 1 when it has none.
PointAt(s) == FirstOf(s, {"."})

\* The value float() gives: a finite decimal p * 10^e10 (p in limbs), an
\* infinity or a NaN, with its sign.
Finite(neg, p, e10) == [kind |-> "finite", neg |-> neg, p |-> p, e10 |-> e10]
Special(kind, neg) == [kind |-> kind, neg |-> neg, p |-> << >>, e10 |-> 0]

\* The characters float() strips from both ends of a string: the ASCII
\* blanks (with the vertical tab) and the Unicode spaces.
OtherSpaces ==
  {"U+0085", "U+00A0", "U+1680", "U+2000", "U+2001", "U+2002",
   "U+2003", "U+2004", "U+2005", "U+2006", "U+2007", "U+2008",
   "U+2009", "U+200A", "U+2028", "U+2029", "U+202F", "U+205F",
   "U+3000"}
Whitespace == {" ", "\t", "\n", "", "\f", "\r"} \cup OtherSpaces

\* str.strip(): from the first to the last character that is no whitespace.
Strip(s) ==
  LET first == CHOOSE i \in 1..(Len(s) + 1) :
                 /\ i \in DOMAIN s => s[i] \notin Whitespace
                 /\ \A j \in 1..(i - 1) : s[j] \in Whitespace
      last == CHOOSE i \in 0..Len(s) :
                /\ i \in DOMAIN s => s[i] \notin Whitespace
                /\ \A j \in (i + 1)..Len(s) : s[j] \in Whitespace
  IN  SubSeq(s, first, last)

Signs == {"+", "-"}
Unsigned(s) == IF s # << >> /\ s[1] \in Signs THEN Tail(s) ELSE s
Negative(s) == s # << >> /\ s[1] = "-"

UpperCase == <<"A", "E", "F", "I", "N", "T", "Y">>
LowerCase == <<"a", "e", "f", "i", "n", "t", "y">>
LowerOf(ch) ==
  IF ch \in Range(UpperCase)
  THEN LowerCase[CHOOSE i \in DOMAIN UpperCase : UpperCase[i] = ch]
  ELSE ch
Lower(s) == [i \in DOMAIN s |-> LowerOf(s[i])]

Infinities == {<<"i", "n", "f">>, <<"i", "n", "f", "i", "n", "i", "t", "y">>}
NaNs == {<<"n", "a", "n">>}

\* Digits with single underscores between them.
DigitRun(d) ==
  /\ d # << >>
  /\ IsDigit(d[1]) /\ IsDigit(d[Len(d)])
  /\ \A i \in DOMAIN d : IsDigit(d[i]) \/ d[i] = "_"
  /\ \A i \in 1..(Len(d) - 1) : ~(d[i] = "_" /\ d[i + 1] = "_")

\* The parts of an unsigned decimal literal.
Mantissa(body) == SubSeq(body, 1, FirstOf(body, {"e", "E"}) - 1)
Exponent(body) == SubSeq(body, FirstOf(body, {"e", "E"}) + 1, Len(body))
HasExponent(body) == FirstOf(body, {"e", "E"}) <= Len(body)
Whole(body) == SubSeq(Mantissa(body), 1, PointAt(Mantissa(body)) - 1)
Frac(body) == SubSeq(Mantissa(body), PointAt(Mantissa(body)) + 1, Len(Mantissa(body)))

\* An unsigned decimal literal: digits, a point or both, then an exponent.
DecimalParses(body) ==
  /\ Whole(body) = << >> \/ DigitRun(Whole(body))
  /\ Frac(body) = << >> \/ DigitRun(Frac(body))
  /\ Whole(body) # << >> \/ Frac(body) # << >>
  /\ HasExponent(body) => DigitRun(Unsigned(Exponent(body)))

\* A variant of StrParses that does not ask for a digit.
StrParsesWithoutDigit(s) ==
  /\ \A i \in DOMAIN s : IsDigit(s[i]) \/ s[i] = "."
  /\ Cardinality({i \in DOMAIN s : s[i] = "."}) <= 1

\* Whether float(str) returns: the string, stripped, is an optionally signed
\* decimal literal, infinity or NaN.
StrParses(s) ==
  LET body == Unsigned(Strip(s))
  IN  \/ Lower(body) \in Infinities \cup NaNs
      \/ DecimalParses(body)

\* An exponent of this size or more makes any value an infinity or zero.
ExpLimit == 100000000

\* Digits without their leading zeros.
DropZeros(ds) ==
  SubSeq(ds, CHOOSE i \in 1..(Len(ds) + 1) :
               /\ i \in DOMAIN ds => DigitOf(ds[i]) # 0
               /\ \A j \in 1..(i - 1) : DigitOf(ds[j]) = 0,
         Len(ds))

\* The value of the digits of an exponent, ExpLimit when it is that or more.
ExponentValue(ds) ==
  IF Len(DropZeros(ds)) > 8 THEN ExpLimit ELSE Decimal(DropZeros(ds))

\* float(str) of a string that parses.
StrValue(s) ==
  LET body == Unsigned(Strip(s))
      neg == Negative(Strip(s))
      whole == SelectSeq(Whole(body), IsDigit)
      frac == SelectSeq(Frac(body), IsDigit)
      exp == IF HasExponent(body)
             THEN (IF Negative(Exponent(body)) THEN -1 ELSE 1)
                  * ExponentValue(SelectSeq(Exponent(body), IsDigit))
             ELSE 0
  IN  IF Lower(body) \in Infinities THEN Special("inf", neg)
      ELSE IF Lower(body) \in NaNs THEN Special("nan", neg)
      ELSE Finite(neg, BigDecimal(whole \o frac), exp - Len(frac))

\* float(x) raises TypeError on None and on a list, ValueError on a string
\* that is no number.
FloatParses(v) == v.t = "num" \/ (v.t = "str" /\ StrParses(v.s))
Float(v) ==
  IF v.t = "num" THEN Finite(v.n < 0, IntToBig(IF v.n < 0 THEN -v.n ELSE v.n), -3)
  ELSE StrValue(v.s)

\* dict.get(key, default)
Get(d, key, default) == IF key \in DOMAIN d THEN d[key] ELSE default

\* A decimal p * 10^e10 with p >= 1 and e10 above this is 1e309 or more: an
\* infinity.
MaxExp10 == 308

\* log2(10) is a little more than Log2Of10 / 10^6.
Log2Of10 == 3321928

\* The double nearest p * 10^e10.  For e10 >= 0 the value is at least
\* 2^(BitLen(p) - 1 + e10 * Log2Of10 / 10^6), and from 2^MaxExp2 on it is an
\* infinity; for e10 < 0 it is below 2^(BitLen(p) + 3 * e10), and below
\* 2^(MinExp2 - 1) it is zero.
DecimalDouble(p, e10) ==
  IF BigTrim(p) = << >> THEN FloatOf(<< >>, 0, 0)
  ELSE IF e10 > MaxExp10 THEN FloatOf(<<1>>, MaxExp2, 1)
  ELSE IF e10 >= 0 /\ BitLen(p) - 1 + ((e10 * Log2Of10) \div 1000000) >= MaxExp2
  THEN FloatOf(<<1>>, MaxExp2, 1)
  ELSE IF BitLen(p) + 3 * e10 < MinExp2 THEN FloatOf(<< >>, 0, -1)
  ELSE Double(IF e10 >= 0 THEN BigMul(p, BigPow10(e10)) ELSE p,
              IF e10 >= 0 THEN <<1>> ELSE BigPow10(-e10))

\* What round() returns here: a finite float counted in 0.01 m2, or a float
\* that is "inf", "-inf" or "nan".
Cents(n) == [kind |-> "finite", cents |-> n]
NotFinite(kind) == [kind |-> kind, cents |-> 0]

Infinite(neg) == IF neg THEN NotFinite("-inf") ELSE NotFinite("inf")

\* round(product, 2) with the sign neg; -0.0 counts as 0.
RoundSigned(neg, product) ==
  IF product.kind = "inf" THEN Infinite(neg)
  ELSE Cents((IF neg THEN -1 ELSE 1) * RoundDouble(product, 100))

\* round(x * y, 2) for x the float of size / 100 and a float y, with the
\* sign neg: 0.0 * inf is NaN, and round() returns an infinity as it is.
RoundProduct(neg, size, y) ==
  IF y.kind = "inf" THEN (IF size = 0 THEN NotFinite("nan") ELSE Infinite(neg))
  ELSE IF size = 0 \/ y.m = << >> THEN Cents(0)
  ELSE RoundSigned(neg, DoubleMul(Double(IntToBig(size), IntToBig(100)), y))

\* round(area * value, 2), area in 0.01 m2 and value as float() gave it: the
\* floats of both, their float product, and round() on it.  A NaN stays a
\* NaN.
FloatMulRound(area, value) ==
  IF value.kind = "nan" THEN NotFinite("nan")
  ELSE RoundProduct((area < 0) # value.neg, IF area < 0 THEN -area ELSE area,
                    IF value.kind = "finite" THEN DecimalDouble(value.p, value.e10)
                    ELSE FloatOf(<<1>>, MaxExp2, 1))

\* 10 ** n
RECURSIVE Pow10(_)
Pow10(n) == IF n = 0 THEN 1 ELSE 10 * Pow10(n - 1)

\* The largest integer of the model, and the least decimal exponent whose
\* power of ten it holds.
MaxInt == 2147483647
MinExp10 == -9

\* p * 10^e10 (e10 <= 0) with the zeros at the end of p moved into the
\* exponent.
RECURSIVE Reduced(_, _)
Reduced(p, e10) ==
  IF p # 0 /\ p % 10 = 0 /\ e10 < 0 THEN Reduced(p \div 10, e10 + 1)
  ELSE [p |-> p, e10 |-> e10]

\* Whether the exact product size * p * 10^e10 (in 0.01) is a ratio n / q of
\* integers of the model.
SmallProduct(size, value) ==
  /\ value.kind = "finite"
  /\ value.p # << >> /\ Len(value.p) <= 3
  /\ BigCmp(value.p, IntToBig(MaxInt)) <= 0
  /\ value.e10 <= 0
  /\ LET v == Reduced(BigToInt(value.p), value.e10)
     IN  v.e10 >= MinExp10 /\ size <= MaxInt \div v.p

\* round(area * value, 2) as FloatMulRound gives it.  The float product is
\* within 3 parts in 10^16 of the exact one, n / q, which is a multiple of
\* 1 / (2 * q) away from the middle between two results: with n below 2^31
\* the float product lies on the same side of the middle as n / q unless
\* n / q is the middle, so it rounds as n / q does.
MulRound(area, value) ==
  LET size == IF area < 0 THEN -area ELSE area
      v == Reduced(BigToInt(value.p), value.e10)
      n == size * v.p
      q == Pow10(-v.e10)
      r == n % q
      nearest == IF r < q - r THEN n \div q ELSE (n \div q) + 1
  IN  IF SmallProduct(size, value) /\ r # q - r
      THEN Cents(IF (area < 0) # value.neg THEN -nearest ELSE nearest)
      ELSE FloatMulRound(area, value)

\* The value the lookup of calculate_buildable_area picks: report.py line 261.
BuildableLookup(ps) == Get(ps, "coeficiente", Get(ps, "ca", Num(1000)))

\* The value the lookup of calculate_footprint picks: report.py line 283.
FootprintLookup(ps) == Get(ps, "taxa_ocupacao", Get(ps, "to", Num(500)))

\* A variant of AreaTimes that takes the last element of a list.
AreaTimesLast(area, chosen) ==
  IF chosen.t = "list" /\ chosen.items = << >> THEN None
  ELSE LET x == IF chosen.t = "list" THEN chosen.items[Len(chosen.items)] ELSE chosen
       IN  IF FloatParses(x) THEN Some(MulRound(area, Float(x))) ELSE None

\* The body shared by both methods after the lookup: the first element of a
\* list, float(), the product, round(); None when anything raised.
AreaTimes(area, chosen) ==
  IF chosen.t = "list" /\ chosen.items = << >> THEN None
  ELSE LET x == IF chosen.t = "list" THEN chosen.items[1] ELSE chosen
       IN  IF FloatParses(x) THEN Some(MulRound(area, Float(x))) ELSE None

\* ZoningCalculator.calculate_buildable_area
calculate_buildable_area(area, ps) == AreaTimes(area, BuildableLookup(ps))

\* ZoningCalculator.calculate_footprint
calculate_footprint(area, ps) == AreaTimes(area, FootprintLookup(ps))

(***************************************************************************)
(* The geometry store and the request handlers (app.py).                   *)
(***************************************************************************)
\* A response: the endpoint, the HTTP status, the JSON fields 'success' and
\* 'error' ("" when absent), the other JSON fields (data), the rows of the
\* store the handler selected for analysis and whether it built an analyzer.
Response(ep, code, success, error, data, selected, analyzed) ==
  [ep |-> ep, code |-> code, success |-> success, error |-> error, data |-> data,
   selected |-> selected, analyzed |-> analyzed]

NoResponse == Response("none", 0, FALSE, "", << >>, << >>, FALSE)

\* The 'success': False responses of the handlers.
Failure(ep, code, error) == Response(ep, code, FALSE, error, << >>, << >>, FALSE)

NotLoaded(ep, error) == Failure(ep, 500, error)

\* A variant of load_geojson that serves an empty store when the file is
\* missing or unreadable.
load_geojson_empty_on_error(file) ==
  Some([geo |-> TRUE, crs |-> "EPSG:4326", columns |-> file.columns,
        rows |-> [i \in DOMAIN file.rows |->
                    [file.rows[i] EXCEPT !.geometry = ToDegrees(@)]]])

\* load_geojson: None when the file is missing or when reading, decoding or
\* reprojecting it raises; otherwise the dataset reprojected to EPSG:4326.
load_geojson(file) ==
  IF file.state = "missing" THEN None
  ELSE IF file.state = "corrupt" THEN None
  ELSE Some([geo |-> TRUE, crs |-> "EPSG:4326", columns |-> file.columns,
             rows |-> [i \in DOMAIN file.rows |->
                         [file.rows[i] EXCEPT !.geometry = ToDegrees(@)]]])

\* get_map_bounds
get_map_bounds(data) ==
  IF IsNone(data) THEN NotLoaded("map-bounds", "Dados nao carregados")
  ELSE LET all == UnaryUnion(Geometries(The(data)))
       IN  IF all = {}
           THEN Response("map-bounds", 200, TRUE, "", <<"nan">>, << >>, FALSE)
           ELSE LET bounds == Bounds(all)
                IN  Response("map-bounds", 200, TRUE, "",
                             [center2 |-> <<bounds[2] + bounds[4], bounds[1] + bounds[3]>>,
                              bounds |-> << <<bounds[2], bounds[1]>>,
                                            <<bounds[4], bounds[3]>> >>],
                             << >>, FALSE)

bairro_candidates == <<"bairro", "BAIRRO", "Bairro", "nome", "NOME", "Nome", "neighborhood">>

\* A variant of ResolveBairroCol in which a later candidate overrides an
\* earlier one (the loop without its break).
ResolveBairroColLast(columns) ==
  IF \E i \in DOMAIN bairro_candidates : bairro_candidates[i] \in columns
  THEN Some(bairro_candidates[
              SetMax({i \in DOMAIN bairro_candidates : bairro_candidates[i] \in columns})])
  ELSE None

\* The loop "for col in [...]: if col in GEOJSON_DATA.columns: ...; break":
\* the first candidate the schema has, None when it has none.
ResolveBairroCol(columns) ==
  IF \E i \in DOMAIN bairro_candidates : bairro_candidates[i] \in columns
  THEN Some(bairro_candidates[
              SetMin({i \in DOMAIN bairro_candidates : bairro_candidates[i] \in columns})])
  ELSE None

\* sorted(values) of scalars
Sorted(values) == SelectSeq(ScalarOrder, LAMBDA v : v \in Range(values))

\* get_bairros
get_bairros(data) ==
  IF IsNone(data) THEN NotLoaded("bairros", "Dados GeoJSON nao carregados. Adicione terrenos.geojson")
  ELSE LET store == The(data)
           bairro_col == ResolveBairroCol(store.columns)
       IN  IF IsNone(bairro_col)
           THEN Response("bairros", 400, FALSE, "Coluna de bairro nao encontrada no GeoJSON",
                         [available_columns |-> store.columns], << >>, FALSE)
           ELSE LET values == DropNa(Column(store, The(bairro_col)))
                IN  IF ~CanUnique(values) THEN Failure("bairros", 500, "TypeError")
                    ELSE Response("bairros", 200, TRUE, "",
                                  [bairros |-> Sorted(Unique(values)),
                                   total |-> Len(Sorted(Unique(values)))],
                                  << >>, FALSE)

\* The positions of the rows a boolean filter keeps, in row order.
Positions(n, Keep(_)) == SelectSeq([i \in 1..n |-> i], Keep)

\* "GEOJSON_DATA[bairro_col] == bairro" compares cell by cell and takes the
\* truth value of each comparison: an array cell has none and it raises.
CanCompare(values) == \A i \in DOMAIN values : values[i] # Unhashable

\* filtered.to_json() raises TypeError on an array cell of a row it writes.
CanSerialize(store, filtered) ==
  \A i \in DOMAIN filtered : \A c \in store.columns :
    store.rows[filtered[i]].attrs[c] # Unhashable

\* get_lotes_by_bairro
get_lotes_by_bairro(data, bairro) ==
  IF IsNone(data) THEN NotLoaded("lotes", "Dados GeoJSON nao carregados")
  ELSE LET store == The(data)
           bairro_col == ResolveBairroCol(store.columns)
       IN  IF IsNone(bairro_col)
           THEN Failure("lotes", 400, "Coluna de bairro nao encontrada")
           ELSE LET filtered ==
                      Positions(Len(store.rows),
                                LAMBDA i : store.rows[i].attrs[The(bairro_col)] = bairro)
                IN  IF ~CanCompare(Column(store, The(bairro_col)))
                    THEN Failure("lotes", 500, "ValueError")
                    ELSE IF Len(filtered) = 0
                    THEN Failure("lotes", 404, "Nenhum lote encontrado para o bairro")
                    ELSE IF ~CanSerialize(store, filtered)
                    THEN Failure("lotes", 500, "TypeError")
                    ELSE Response("lotes", 200, TRUE, "",
                                  [bairro |-> bairro,
                                   total_lotes |-> Len(filtered),
                                   geojson |-> [i \in DOMAIN filtered |->
                                                  store.rows[filtered[i]]]],
                                  << >>, FALSE)

\* DataFrame.iloc[indices] accepts the positions -N .. N - 1.
ILocOk(store, indices) ==
  \A i \in DOMAIN indices : indices[i] >= -Len(store.rows) /\ indices[i] < Len(store.rows)

\* The row (counted from 1) position k of iloc names: a negative k counts
\* from the end.
ILocRow(store, k) == IF k >= 0 THEN k + 1 ELSE Len(store.rows) + k + 1

\* DataFrame.iloc[indices]
ILoc(store, indices) ==
  [store EXCEPT !.rows = [i \in DOMAIN indices |-> store.rows[ILocRow(store, indices[i])]]]

\* jsonify(...) of a summary raises TypeError on an array: the parameter loop
\* of extract_zoning_info passes the cells of a column on as they are.
CanJsonify(info) ==
  "zoneamento" \in DOMAIN info =>
    \A k \in DOMAIN info.zoneamento : Unhashable \notin Range(info.zoneamento[k].v)

\* unir_lotes; body is the posted JSON: None when the request has none,
\* otherwise Some of the list under 'indices' (the empty list when absent).
unir_lotes(data, body) ==
  IF IsNone(data) THEN NotLoaded("unir-lotes", "Dados GeoJSON nao carregados")
  ELSE IF IsNone(body) THEN Failure("unir-lotes", 500, "BadRequest")
  ELSE LET store == The(data)
           indices == The(body)
       IN  IF Len(indices) = 0 THEN Failure("unir-lotes", 400, "Nenhum lote selecionado")
           ELSE IF ~ILocOk(store, indices) THEN Failure("unir-lotes", 500, "IndexError")
           ELSE LET selected_lots == ILoc(store, indices)
                    rows == [i \in DOMAIN indices |-> ILocRow(store, indices[i])]
                    unified == unify_lots(selected_lots, None, 0)
                    info == calculate_info(selected_lots, unified.ug, unified.runs)
                IN  IF unified.raised
                    THEN Response("unir-lotes", 500, FALSE, unified.val, << >>, rows, TRUE)
                    ELSE IF "area_total_m2" \notin DOMAIN info.val
                    THEN Response("unir-lotes", 500, FALSE, "KeyError", << >>, rows, TRUE)
                    ELSE IF ~CanJsonify(info.val)
                    THEN Response("unir-lotes", 500, FALSE, "TypeError", << >>, rows, TRUE)
                    ELSE Response("unir-lotes", 200, TRUE, "",
                                  [total_lotes_unidos |-> Len(indices),
                                   geometry |-> unified.val,
                                   info |-> info.val],
                                  rows, TRUE)

\* get_lote_info
get_lote_info(data, index) ==
  IF IsNone(data) THEN NotLoaded("info-lote", "Dados GeoJSON nao carregados")
  ELSE LET store == The(data)
       IN  IF index < 0 \/ index >= Len(store.rows)
           THEN Failure("info-lote", 400, "Indice de lote invalido")
           ELSE LET info == calculate_info(ILoc(store, <<index>>), None, 0)
                IN  IF ~CanJsonify(info.val)
                    THEN Response("info-lote", 500, FALSE, "TypeError", << >>,
                                  <<index + 1>>, TRUE)
                    ELSE Response("info-lote", 200, TRUE, "", [info |-> info.val],
                                  <<index + 1>>, TRUE)

\* The 404 error handler: a URL no route matches.
not_found == Failure("unknown", 404, "Rota nao encontrada")

\* The route '/api/info-lote/<int:index>': the int converter takes digits
\* only, so a URL with a negative index matches no route.
InfoLoteRoute(index) == index >= 0

(***************************************************************************)
(* The handlers statement by statement, as a server thread runs them while *)
(* other threads run theirs.  A worker is the thread's position in its     *)
(* handler, the request, the analyzer the handler built (a local of the    *)
(* handler) and the response when the handler has returned.                *)
(***************************************************************************)
Workers == {"w1", "w2"}

IdleWorker == [pc |-> "idle", req |-> [ep |-> "none", arg |-> << >>], analyzer |-> None,
               resp |-> NoResponse]
NoWorkers == [t \in Workers |-> IdleWorker]

\* A variant of AnalyzerFor whose cache starts with the first parcel.
AnalyzerWithCache(geodataframe) ==
  [gdf |-> geodataframe, unified_geometry |-> Some(geodataframe.rows[1].geometry),
   unify_runs |-> 0]

\* TerrainAnalyzer(geodataframe): a new instance with an empty cache.
AnalyzerFor(geodataframe) ==
  [gdf |-> geodataframe, unified_geometry |-> None, unify_runs |-> 0]

\* The handler returned response.
Returned(request, response) ==
  [pc |-> "done", req |-> request, analyzer |-> None, resp |-> response]

\* The handler is at position at with its analyzer.
Running(at, request, analyzer) ==
  [pc |-> at, req |-> request, analyzer |-> Some(analyzer), resp |-> NoResponse]

\* unir_lotes up to "analyzer = TerrainAnalyzer(selected_lots)".
unir_lotes_begin(data, body) ==
  LET request == [ep |-> "unir-lotes", arg |-> body]
  IN  IF IsNone(data)
      THEN Returned(request, NotLoaded("unir-lotes", "Dados GeoJSON nao carregados"))
      ELSE IF IsNone(body) THEN Returned(request, Failure("unir-lotes", 500, "BadRequest"))
      ELSE IF Len(The(body)) = 0
      THEN Returned(request, Failure("unir-lotes", 400, "Nenhum lote selecionado"))
      ELSE IF ~ILocOk(The(data), The(body))
      THEN Returned(request, Failure("unir-lotes", 500, "IndexError"))
      ELSE Running("built", request, AnalyzerFor(ILoc(The(data), The(body))))

\* "unified_geom = analyzer.unify_lots()"
unir_lotes_unify(data, w) ==
  LET a == The(w.analyzer)
      indices == The(w.req.arg)
      rows == [i \in DOMAIN indices |-> ILocRow(The(data), indices[i])]
      unified == unify_lots(a.gdf, a.unified_geometry, a.unify_runs)
  IN  IF unified.raised
      THEN Returned(w.req, Response("unir-lotes", 500, FALSE, unified.val, << >>, rows, TRUE))
      ELSE Running("unified", w.req,
                   [a EXCEPT !.unified_geometry = unified.ug, !.unify_runs = unified.runs])

\* unir_lotes from "info = analyzer.calculate_info()" to its return.
unir_lotes_info(data, w) ==
  LET a == The(w.analyzer)
      indices == The(w.req.arg)
      rows == [i \in DOMAIN indices |-> ILocRow(The(data), indices[i])]
      info == calculate_info(a.gdf, a.unified_geometry, a.unify_runs)
  IN  IF "area_total_m2" \notin DOMAIN info.val
      THEN Returned(w.req, Response("unir-lotes", 500, FALSE, "KeyError", << >>, rows, TRUE))
      ELSE IF ~CanJsonify(info.val)
      THEN Returned(w.req, Response("unir-lotes", 500, FALSE, "TypeError", << >>, rows, TRUE))
      ELSE Returned(w.req,
                    Response("unir-lotes", 200, TRUE, "",
                             [total_lotes_unidos |-> Len(indices),
                              geometry |-> The(a.unified_geometry),
                              info |-> info.val],
                             rows, TRUE))

\* get_lote_info up to "analyzer = TerrainAnalyzer(GEOJSON_DATA.iloc[[index]])".
get_lote_info_begin(data, index) ==
  LET request == [ep |-> "info-lote", arg |-> index]
  IN  IF IsNone(data)
      THEN Returned(request, NotLoaded("info-lote", "Dados GeoJSON nao carregados"))
      ELSE IF index < 0 \/ index >= Len(The(data).rows)
      THEN Returned(request, Failure("info-lote", 400, "Indice de lote invalido"))
      ELSE Running("built", request, AnalyzerFor(ILoc(The(data), <<index>>)))

\* get_lote_info from "info = analyzer.calculate_info()" to its return.
get_lote_info_info(w) ==
  LET a == The(w.analyzer)
      info == calculate_info(a.gdf, a.unified_geometry, a.unify_runs)
  IN  IF ~CanJsonify(info.val)
      THEN Returned(w.req, Response("info-lote", 500, FALSE, "TypeError", << >>,
                                    <<w.req.arg + 1>>, TRUE))
      ELSE Returned(w.req, Response("info-lote", 200, TRUE, "", [info |-> info.val],
                                    <<w.req.arg + 1>>, TRUE))

(***************************************************************************)
(* Inputs.                                                                 *)
(***************************************************************************)
\* All sequences over S of a length in lo .. hi.
SeqsOf(S, lo, hi) == UNION {[1..n -> S] : n \in lo..hi}

\* Parcels: two that overlap in one cell, one inside another, disjoint ones,
\* and two neighbours that overlap in the sliver alone (about 0.001 m2).
Parcels ==
  { {<<1, 1>>}, {<<1, 1>>, <<2, 1>>}, {<<2, 1>>, <<2, 2>>}, {<<1, 2>>},
    {<<2, 1>>, <<3, 1>>}, {<<3, 1>>, <<4, 1>>} }

\* The parcel a row has when its geometry is fixed by its position.
RowGeoms == << {<<1, 1>>, <<2, 1>>}, {<<2, 1>>, <<2, 2>>}, {<<1, 2>>}, {<<1, 1>>} >>
RowGeom(i) == RowGeoms[((i - 1) % Len(RowGeoms)) + 1]

NoAttrs == << >>

\* Selections without attribute columns: every choice of parcels, with and
\* without a coordinate reference system.
GeoFrames ==
  {[geo |-> TRUE, crs |-> crs, columns |-> {}, rows |-> rows] :
     crs \in {"EPSG:4326", "none"},
     rows \in SeqsOf([geometry : Parcels, attrs : {NoAttrs}], 1, MaxLots)}

\* Plain frames: no geometry column at all.
PlainFrames ==
  {[geo |-> FALSE, crs |-> "none", columns |-> {}, rows |-> rows] :
     rows \in SeqsOf([geometry : {{}}, attrs : {NoAttrs}], 1, MaxLots)}

\* Selections with up to two attribute columns and every choice of values.
AttrColumns == {"zona", "ca", "lote", "bairro"}
AttrSchemas == {S \in SUBSET AttrColumns : Cardinality(S) <= 2}
AttrFrames ==
  UNION {
    UNION {
      {[geo |-> geo, crs |-> IF geo THEN "EPSG:4326" ELSE "none", columns |-> cols,
        rows |-> [i \in 1..n |->
                    [geometry |-> IF geo THEN RowGeom(i) ELSE {}, attrs |-> values[i]]]] :
         geo \in BOOLEAN, values \in [1..n -> [cols -> CellValues]]} :
      n \in {m \in 1..MaxLots : m * Cardinality(cols) <= MaxCells}} :
    cols \in AttrSchemas}

\* Dataset files: missing, unreadable, or a table in EPSG:31984 with up to
\* two attribute columns.
StoreColumns == {"BAIRRO", "nome", "lote", "ca"}
StoreSchemas == {S \in SUBSET StoreColumns : Cardinality(S) <= 2}
DatasetFiles ==
  {[state |-> st, columns |-> {}, rows |-> << >>] : st \in {"missing", "corrupt"}}
  \cup
  UNION {
    UNION {
      {[state |-> "ok", columns |-> cols,
        rows |-> [i \in 1..n |-> [geometry |-> ToMetric(RowGeom(i)), attrs |-> values[i]]]] :
         values \in [1..n -> [cols -> CellValues]]} :
      n \in {m \in 0..MaxStoreRows : m * Cardinality(cols) <= MaxCells}} :
    cols \in StoreSchemas}

\* Requests: neighbourhood names, parcel indices around both ends of the
\* store, posted bodies.
BairroNames == {"A", "B", "C"}
StoreCount == IF IsNone(GEOJSON_DATA) THEN 0 ELSE Len(The(GEOJSON_DATA).rows)
IndexInputs == {-(StoreCount + 1), -1, 0, StoreCount - 1, StoreCount}
Bodies == {None} \cup {Some(l) : l \in SeqsOf(IndexInputs, 0, MaxIndices)}

\* Concurrent requests: a store with at most one of the columns 'lote' and
\* 'ca'; posted lists
\* of one or two indices around both ends of the store.
SharedFiles == {f \in DatasetFiles : f.columns \in {{}, {"lote"}, {"ca"}}}
SharedIndices == {-1, 0, StoreCount - 1, StoreCount}
SharedBodies ==
  {None, Some(<< >>)} \cup {Some(<<i>>) : i \in SharedIndices}
  \cup {Some(<<i, j>>) : i, j \in SharedIndices}

\* Calculator inputs: areas -0.05, 0, 0.03, 0.05, 123.48 and 1000.00
\* m2 (half of 0.03 and of 0.05 lies half way between two results);
\* parameter values, among them strings with a vertical tab and with a
\* no-break space around the number, 2e308 (beyond the largest float) and
\* 2000000000e-10.
Areas == {-5, 0, 3, 5, 12348, 100000}
StrAlphabet == {"5", ".", "-"}
OtherStrings ==
  {<<"a">>, <<" ", "5">>, <<"i", "n", "f">>, <<"", "5">>, <<"5", "U+00A0">>,
   <<"2", "e", "3", "0", "8">>,
   <<"2", "0", "0", "0", "0", "0", "0", "0", "0", "0", "e", "-", "1", "0">>}
ScalarValues ==
  {Num(500), Num(2000), NoneValue}
  \cup {Str(s) : s \in SeqsOf(StrAlphabet, 0, MaxStrLen) \cup OtherStrings}
ListItems == {Num(2000), NoneValue, Str(<<"5">>), Str(<<"a">>)}
ParamValueSet == ScalarValues \cup {List(l) : l \in SeqsOf(ListItems, 0, MaxListLen)}
ParamKeys == {"coeficiente", "ca", "taxa_ocupacao", "to"}
ParamKeySets == {K \in SUBSET ParamKeys : Cardinality(K) <= 2}
ParamSets == UNION {[K -> ParamValueSet] : K \in ParamKeySets}

(***************************************************************************)
(* States and actions.                                                     *)
(***************************************************************************)
NoFrame == [geo |-> FALSE, crs |-> "none", columns |-> {}, rows |-> << >>]
NoCall == [op |-> "none", raised |-> FALSE, val |-> None]

NoRequest == [ep |-> "none", arg |-> << >>]
NoFile == [state |-> "missing", columns |-> {}, rows |-> << >>]

AppIdle ==
  /\ dataset = NoFile /\ GEOJSON_DATA = None /\ pc = "off" /\ req = NoRequest
  /\ resp = NoResponse /\ workers = NoWorkers
AnalyzerIdle ==
  gdf = NoFrame /\ unified_geometry = None /\ ret = NoCall /\ unify_runs = 0 /\ calls = 0
CalculatorIdle == area_terreno = 0 /\ params = << >> /\ zret = [op |-> "none", val |-> None]

\* TerrainAnalyzer.__init__
AnalyzerInit(frames) ==
  /\ gdf \in frames
  /\ unified_geometry = None
  /\ ret = NoCall
  /\ unify_runs = 0
  /\ calls = 0

\* A method call on the analyzer instance: r is what the method gives.
AnalyzerCall(op, r) ==
  /\ calls < MaxCalls
  /\ calls' = calls + 1
  /\ unified_geometry' = r.ug
  /\ unify_runs' = r.runs
  /\ ret' = [op |-> op, raised |-> r.raised, val |-> r.val]
  /\ UNCHANGED <<gdf, appVars, zcVars>>

UnifyLots == AnalyzerCall("unify_lots", unify_lots(gdf, unified_geometry, unify_runs))

CalculateArea ==
  AnalyzerCall("calculate_area", calculate_area(gdf, unified_geometry, unify_runs))

CalculatePerimeter ==
  AnalyzerCall("calculate_perimeter", calculate_perimeter(gdf, unified_geometry, unify_runs))

ExtractZoningInfo ==
  AnalyzerCall("extract_zoning_info",
               Result(FALSE, extract_zoning_info(gdf), unified_geometry, unify_runs))

CalculateInfo ==
  AnalyzerCall("calculate_info", calculate_info(gdf, unified_geometry, unify_runs))

GetCentroid == AnalyzerCall("get_centroid", get_centroid(gdf, unified_geometry, unify_runs))

GetBounds == AnalyzerCall("get_bounds", get_bounds(gdf, unified_geometry, unify_runs))

\* ZoningCalculator.__init__
CalculatorInit ==
  /\ area_terreno \in Areas
  /\ params \in ParamSets
  /\ zret = [op |-> "none", val |-> None]

CalculateBuildableArea ==
  /\ zret' = [op |-> "calculate_buildable_area",
              val |-> calculate_buildable_area(area_terreno, params)]
  /\ UNCHANGED <<area_terreno, params, appVars, anVars>>

CalculateFootprint ==
  /\ zret' = [op |-> "calculate_footprint",
              val |-> calculate_footprint(area_terreno, params)]
  /\ UNCHANGED <<area_terreno, params, appVars, anVars>>

\* The process: __main__ loads the store once, then requests are served one
\* after the other.
AppInit ==
  /\ dataset \in DatasetFiles
  /\ GEOJSON_DATA = None
  /\ pc = "start"
  /\ req = NoRequest
  /\ resp = NoResponse
  /\ workers = NoWorkers

Main ==
  /\ pc = "start"
  /\ GEOJSON_DATA' = load_geojson(dataset)
  /\ pc' = "serving"
  /\ UNCHANGED <<dataset, req, resp, workers, anVars, zcVars>>

Serve(ep, arg, response) ==
  /\ pc = "serving"
  /\ req' = [ep |-> ep, arg |-> arg]
  /\ resp' = response
  /\ pc' = "responded"
  /\ UNCHANGED <<dataset, GEOJSON_DATA, workers, anVars, zcVars>>

GetMapBounds == Serve("map-bounds", << >>, get_map_bounds(GEOJSON_DATA))

GetBairros == Serve("bairros", << >>, get_bairros(GEOJSON_DATA))

GetLotesByBairro ==
  \E bairro \in BairroNames : Serve("lotes", bairro, get_lotes_by_bairro(GEOJSON_DATA, bairro))

UnirLotes == \E body \in Bodies : Serve("unir-lotes", body, unir_lotes(GEOJSON_DATA, body))

GetLoteInfo ==
  \E index \in IndexInputs :
    Serve("info-lote", index,
          IF InfoLoteRoute(index) THEN get_lote_info(GEOJSON_DATA, index) ELSE not_found)

NotFound == Serve("unknown", << >>, not_found)

\* The response is sent and the server waits for the next request.
NextRequest ==
  /\ pc = "responded"
  /\ pc' = "serving"
  /\ req' = NoRequest
  /\ resp' = NoResponse
  /\ UNCHANGED <<dataset, GEOJSON_DATA, workers, anVars, zcVars>>

\* The web application with two server threads.
SharedInit ==
  /\ dataset \in SharedFiles
  /\ GEOJSON_DATA = None
  /\ pc = "start"
  /\ req = NoRequest
  /\ resp = NoResponse
  /\ workers = NoWorkers

\* A step of the handler thread t runs: the worker becomes w.
WorkerStep(t, w) ==
  /\ pc = "serving"
  /\ workers' = [workers EXCEPT ![t] = w]
  /\ UNCHANGED <<dataset, GEOJSON_DATA, pc, req, resp, anVars, zcVars>>

\* A request for an endpoint that builds no analyzer is answered.
AnswerAtOnce(t) ==
  /\ workers[t].pc = "idle"
  /\ \/ WorkerStep(t, Returned([ep |-> "map-bounds", arg |-> << >>],
                               get_map_bounds(GEOJSON_DATA)))
     \/ WorkerStep(t, Returned([ep |-> "bairros", arg |-> << >>], get_bairros(GEOJSON_DATA)))
     \/ \E bairro \in BairroNames :
          WorkerStep(t, Returned([ep |-> "lotes", arg |-> bairro],
                                 get_lotes_by_bairro(GEOJSON_DATA, bairro)))
     \/ WorkerStep(t, Returned([ep |-> "unknown", arg |-> << >>], not_found))

UnirLotesBegin(t) ==
  /\ workers[t].pc = "idle"
  /\ \E body \in SharedBodies : WorkerStep(t, unir_lotes_begin(GEOJSON_DATA, body))

UnirLotesUnify(t) ==
  /\ workers[t].pc = "built"
  /\ workers[t].req.ep = "unir-lotes"
  /\ WorkerStep(t, unir_lotes_unify(GEOJSON_DATA, workers[t]))

UnirLotesInfo(t) ==
  /\ workers[t].pc = "unified"
  /\ WorkerStep(t, unir_lotes_info(GEOJSON_DATA, workers[t]))

GetLoteInfoBegin(t) ==
  /\ workers[t].pc = "idle"
  /\ \E index \in SharedIndices :
       WorkerStep(t, IF InfoLoteRoute(index) THEN get_lote_info_begin(GEOJSON_DATA, index)
                     ELSE Returned([ep |-> "info-lote", arg |-> index], not_found))

GetLoteInfoInfo(t) ==
  /\ workers[t].pc = "built"
  /\ workers[t].req.ep = "info-lote"
  /\ WorkerStep(t, get_lote_info_info(workers[t]))

\* The response is sent and the thread is free for the next request.
Send(t) ==
  /\ workers[t].pc = "done"
  /\ WorkerStep(t, IdleWorker)

(***************************************************************************)
(* Specifications.                                                         *)
(***************************************************************************)
\* One analyzer over a selection without attributes, its methods in any order.
InitAnalyzer == AnalyzerInit(GeoFrames \cup PlainFrames) /\ AppIdle /\ CalculatorIdle
NextAnalyzer ==
  \/ UnifyLots
  \/ CalculateArea
  \/ CalculatePerimeter
  \/ CalculateInfo
  \/ GetCentroid
  \/ GetBounds
SpecAnalyzer == InitAnalyzer /\ [][NextAnalyzer]_vars

\* One analyzer over a selection with attribute columns.
InitInfo == AnalyzerInit(AttrFrames) /\ AppIdle /\ CalculatorIdle
NextInfo ==
  \/ ExtractZoningInfo
  \/ CalculateInfo
SpecInfo == InitInfo /\ [][NextInfo]_vars

\* One calculator.
InitCalc == CalculatorInit /\ AppIdle /\ AnalyzerIdle
NextCalc ==
  \/ CalculateBuildableArea
  \/ CalculateFootprint
SpecCalc == InitCalc /\ [][NextCalc]_vars

\* The web application.
InitApp == AppInit /\ AnalyzerIdle /\ CalculatorIdle
NextApp ==
  \/ Main
  \/ GetMapBounds
  \/ GetBairros
  \/ GetLotesByBairro
  \/ UnirLotes
  \/ GetLoteInfo
  \/ NotFound
  \/ NextRequest
SpecApp == InitApp /\ [][NextApp]_vars

\* The web application answering requests on two threads at once.
InitShared == SharedInit /\ AnalyzerIdle /\ CalculatorIdle
NextShared ==
  \/ Main
  \/ \E t \in Workers : AnswerAtOnce(t)
  \/ \E t \in Workers : UnirLotesBegin(t)
  \/ \E t \in Workers : UnirLotesUnify(t)
  \/ \E t \in Workers : UnirLotesInfo(t)
  \/ \E t \in Workers : GetLoteInfoBegin(t)
  \/ \E t \in Workers : GetLoteInfoInfo(t)
  \/ \E t \in Workers : Send(t)
SpecShared == InitShared /\ [][NextShared]_vars

\* Everything together.
Init == InitAnalyzer
Next == NextAnalyzer
Spec == SpecAnalyzer

(***************************************************************************)
(* Properties of TerrainAnalyzer.calculate_info and extract_zoning_info,   *)
(* checked under SpecInfo.                                                 *)
(***************************************************************************)
Recognized == Range(zoning_columns) \cup Range(param_columns)

\* The steps of calculate_info that can fail on a frame: measuring (the
\* frame has no geometry to unify, in the try block and in the fallback
\* alike), the zoning extraction and the additional-information extraction
\* (a column holds a value unique() cannot hash).
MeasuringFails(frame) == ~frame.geo
ZoningFails(frame) ==
  \E c \in Range(zoning_columns) : c \in frame.columns /\ Unhashable \in Range(Column(frame, c))
AdditionalFails(frame) ==
  \E c \in Range(info_columns) : c \in frame.columns /\ Unhashable \in Range(Column(frame, c))

ReturnedInfo == ret.op = "calculate_info"

\* C1 as stated: calculate_info never raises and returns a mapping; when a
\* step failed (area, perimeter, zoning or additional information) the
\* mapping has an 'error' field and 'total_lotes' = the number of parcels.
C1_ErrorFieldOnAnyFailure ==
  ReturnedInfo =>
    /\ ~ret.raised
    /\ (MeasuringFails(gdf) \/ ZoningFails(gdf) \/ AdditionalFails(gdf)) =>
          /\ "error" \in DOMAIN ret.val
          /\ ret.val.total_lotes = Len(gdf.rows)

\* C1 amended: calculate_info never raises and its mapping always has
\* 'total_lotes' = the number of parcels.  When measuring or the additional
\* information extraction failed the mapping is exactly {error, total_lotes}.
\* A failure of the zoning extraction alone is caught inside
\* extract_zoning_info: the mapping is the full summary, without an 'error'
\* field, and its 'zoneamento' is the mapping {error}.  Without a failure
\* neither has an 'error' field.
C1_SummaryNeverRaises ==
  ReturnedInfo =>
    /\ ~ret.raised
    /\ "total_lotes" \in DOMAIN ret.val
    /\ ret.val.total_lotes = Len(gdf.rows)
    /\ IF MeasuringFails(gdf) \/ AdditionalFails(gdf)
       THEN DOMAIN ret.val = {"error", "total_lotes"}
       ELSE /\ DOMAIN ret.val = {"total_lotes", "area_total_m2", "area_total_hectares",
                                 "perimetro_m", "zoneamento", "informacoes_adicionais"}
            /\ ZoningFails(gdf) <=> DOMAIN ret.val.zoneamento = {"error"}

\* C1 witness: the zoning extraction alone failed on a two-parcel selection
\* and calculate_info returned the full summary.
C1_Witness ==
  /\ ReturnedInfo
  /\ Len(gdf.rows) = 2
  /\ ZoningFails(gdf) /\ ~MeasuringFails(gdf) /\ ~AdditionalFails(gdf)
  /\ "error" \notin DOMAIN ret.val
  /\ "error" \in DOMAIN ret.val.zoneamento

\* All parcels of the frame hold the same non-null value in the column.
AllAgree(frame, col) ==
  /\ \A i \in DOMAIN frame.rows : frame.rows[i].attrs[col] # NaN
  /\ \A i, j \in DOMAIN frame.rows : frame.rows[i].attrs[col] = frame.rows[j].attrs[col]

\* The non-null values of the column differ between parcels.
ValuesDiffer(frame, col) ==
  \E i, j \in DOMAIN frame.rows :
     /\ frame.rows[i].attrs[col] # NaN
     /\ frame.rows[j].attrs[col] # NaN
     /\ frame.rows[i].attrs[col] # frame.rows[j].attrs[col]

ReturnedZoning == ret.op = "extract_zoning_info" /\ "error" \notin DOMAIN ret.val

\* C3: extract_zoning_info records, for every recognized column of either
\* group, the single value when all parcels agree on it and a list only
\* when the parcels' values differ.
C3_SingleValueOrList ==
  ReturnedZoning =>
    \A c \in Recognized \cap gdf.columns :
       /\ AllAgree(gdf, c) =>
            /\ c \in DOMAIN ret.val
            /\ ret.val[c] = [list |-> FALSE, v |-> <<gdf.rows[1].attrs[c]>>]
       /\ (c \in DOMAIN ret.val /\ ret.val[c].list) => ValuesDiffer(gdf, c)

StatusMapping == [k \in {"status"} |-> [list |-> FALSE, v |-> <<StatusMsg>>]]

\* C4 as stated: on a schema with no recognized column the 'zoneamento'
\* field of what calculate_info returns is the status entry.
C4_StatusInEverySummary ==
  (ReturnedInfo /\ Recognized \cap gdf.columns = {}) =>
    /\ "zoneamento" \in DOMAIN ret.val
    /\ ret.val.zoneamento = StatusMapping

\* C4 amended: extract_zoning_info never returns an empty mapping; on a
\* schema with no recognized column it returns exactly {status: message};
\* the 'status' key appears only when no recognized attribute was recorded;
\* and whenever the frame has geometry to measure and no
\* additional-information column holds a value that cannot be hashed,
\* calculate_info returns a summary whose 'zoneamento' field is not empty
\* and is the status entry on a schema with no recognized column.
C4_StatusInsteadOfEmpty ==
  /\ ret.op = "extract_zoning_info" =>
       /\ DOMAIN ret.val # {}
       /\ Recognized \cap gdf.columns = {} => ret.val = StatusMapping
       /\ "status" \in DOMAIN ret.val =>
            /\ ret.val = StatusMapping
            /\ \A c \in Recognized \cap gdf.columns :
                  \A i \in DOMAIN gdf.rows : gdf.rows[i].attrs[c] = NaN
  /\ (ReturnedInfo /\ ~MeasuringFails(gdf) /\ ~AdditionalFails(gdf)) =>
       /\ "zoneamento" \in DOMAIN ret.val
       /\ DOMAIN ret.val.zoneamento # {}
       /\ Recognized \cap gdf.columns = {} => ret.val.zoneamento = StatusMapping
  /\ (ReturnedInfo /\ (MeasuringFails(gdf) \/ AdditionalFails(gdf))) =>
       "zoneamento" \notin DOMAIN ret.val

\* C4 witness: the summary of one parcel whose only column is not a zoning
\* column carries the status entry.
C4_Witness ==
  /\ ReturnedInfo
  /\ Len(gdf.rows) = 1
  /\ gdf.geo
  /\ gdf.columns = {"bairro"}
  /\ "zoneamento" \in DOMAIN ret.val
  /\ ret.val.zoneamento = StatusMapping

(***************************************************************************)
(* Properties of the analyzer's geometry methods, checked under            *)
(* SpecAnalyzer.                                                           *)
(***************************************************************************)
\* C2: over a selection of several parcels the union is computed at most
\* once per analyzer instance, whatever methods are called and in whatever
\* order: the first need computes the unified geometry, and every later
\* call of unify_lots, calculate_area, calculate_perimeter, get_centroid or
\* get_bounds uses the cached value without another union computation.
C2_UnionComputedOnce == Len(gdf.rows) >= 2 => unify_runs <= 1

UnionOfParcels(frame) == UNION {frame.rows[i].geometry : i \in DOMAIN frame.rows}

\* The exact area of one geometry on the path calculate_area takes for the
\* frame, and how many of its units make 0.01 m2: 1e-9 m2 in EPSG:31984, or
\* 1e-13 square degree times 2783 squared (111320 is 40 * 2783) in the
\* fallback.
ExactArea(frame, g) ==
  IF CanReproject(frame) THEN AreaMetric(ToMetric(g)) ELSE AreaDeg(g) * 2783 * 2783
UnitsPerCent(frame) == IF CanReproject(frame) THEN 10000000 ELSE 62500000

\* The naive sum of the exact areas of the parcels of the frame.
SumOfAreas(frame) ==
  SumSeq([i \in DOMAIN frame.rows |-> ExactArea(frame, frame.rows[i].geometry)])

Overlapping(frame) ==
  \E i, j \in DOMAIN frame.rows :
     i # j /\ frame.rows[i].geometry \cap frame.rows[j].geometry # {}

\* The area the naive sum counts more than once.
OverlapArea(frame) == SumOfAreas(frame) - ExactArea(frame, UnionOfParcels(frame))

\* The last call reported an area: calculate_area returned, or
\* calculate_info returned a summary with 'area_total_m2'.
ReportsArea ==
  \/ ret.op = "calculate_area" /\ ~ret.raised
  \/ ret.op = "calculate_info" /\ "area_total_m2" \in DOMAIN ret.val
ReportedArea == IF ret.op = "calculate_area" THEN ret.val ELSE ret.val.area_total_m2

\* C10 as stated: the reported area is strictly less than the sum of the
\* parcels' areas whenever two parcels overlap.
C10_StrictlyLessOnOverlap ==
  (ReportsArea /\ Overlapping(gdf)) =>
    ReportedArea * UnitsPerCent(gdf) < SumOfAreas(gdf)

\* What C10 says of one report, with the rounding made explicit.
C10_UnionArea ==
  ReportsArea =>
    /\ ReportedArea >= 0
    /\ ReportedArea
         = RoundDiv(ExactArea(gdf, UnionOfParcels(gdf)), UnitsPerCent(gdf), 100)
    /\ ~Overlapping(gdf) =>
          ReportedArea = RoundDiv(SumOfAreas(gdf), UnitsPerCent(gdf), 100)
    /\ Len(gdf.rows) = 1 =>
          ReportedArea
            = RoundDiv(ExactArea(gdf, gdf.rows[1].geometry), UnitsPerCent(gdf), 100)
    /\ Overlapping(gdf) =>
          ReportedArea <= RoundDiv(SumOfAreas(gdf), UnitsPerCent(gdf), 100)
    /\ OverlapArea(gdf) > UnitsPerCent(gdf) =>
          /\ ReportedArea * UnitsPerCent(gdf) < SumOfAreas(gdf)
          /\ ReportedArea < RoundDiv(SumOfAreas(gdf), UnitsPerCent(gdf), 100)

\* C10 amended: the area calculate_area and calculate_info ('area_total_m2')
\* report is the area of the union of the parcels rounded to two decimals:
\* it is not negative; it is the rounded sum of the parcels' areas when they
\* are pairwise disjoint, and the parcel's own rounded area for a single
\* parcel; when parcels overlap it is never above the rounded sum, and it
\* is strictly less than the sum when the overlap exceeds 0.01 m2; and two
\* reports on one instance are equal, whatever was called in between.
C10_AreaOfUnion ==
  /\ []C10_UnionArea
  /\ [][(ReportsArea /\ ReportsArea') => ReportedArea' = ReportedArea]_vars

\* C10 witness: the summary of two parcels that overlap in a whole cell was
\* measured in the metric projection and its area is less than the sum of
\* their areas.
C10_Witness ==
  /\ ret.op = "calculate_info"
  /\ ReportsArea
  /\ Len(gdf.rows) = 2
  /\ CanReproject(gdf)
  /\ OverlapArea(gdf) > UnitsPerCent(gdf)
  /\ gdf.rows[1].geometry # gdf.rows[2].geometry
  /\ ReportedArea < RoundDiv(SumOfAreas(gdf), UnitsPerCent(gdf), 100)
  /\ ReportedArea > 0

\* The reprojection step of a measuring method fails on the frame: the
\* try block got as far as to_crs (unify_lots did not raise) and to_crs
\* raised.
Measuring == {"calculate_area", "calculate_perimeter"}
ReprojectionFails(frame) == frame.geo /\ ~CanReproject(frame)
\* val is exact / unit rounded to the nearest integer.
RoundedFrom(val, exact, unit) == 2 * (val * unit - exact) \in (-unit)..unit

\* What a measuring call that ended in the fallback left behind.
C11_FallbackValue ==
  (ret.op \in Measuring /\ ReprojectionFails(gdf)) =>
    /\ ~ret.raised
    /\ unified_geometry = Some(UnionOfParcels(gdf))
    /\ ret.op = "calculate_area" =>
          RoundedFrom(ret.val, AreaDeg(UnionOfParcels(gdf)) * 2783 * 2783, 62500000)
    /\ ret.op = "calculate_perimeter" =>
          RoundedFrom(ret.val, LengthDeg(UnionOfParcels(gdf)) * 111320, 1000000)

\* C11: when the reprojection inside calculate_area or calculate_perimeter
\* fails, the call raises nothing and returns the measure of the cached
\* unified geometry (in degrees) times 111320 squared for the area and times
\* 111320 for the perimeter, rounded to two decimals; the unified geometry
\* is computed in that call when it was not cached, and is reused when it
\* was.
C11_FallbackRecovers ==
  /\ []C11_FallbackValue
  /\ [][ (ret'.op \in Measuring /\ ReprojectionFails(gdf)) =>
            /\ unified_geometry = None =>
                  /\ unify_runs' = unify_runs + 1
                  /\ unified_geometry' = Some(UnionOfParcels(gdf))
            /\ unified_geometry # None =>
                  /\ unify_runs' = unify_runs
                  /\ unified_geometry' = unified_geometry
        ]_vars

\* C11 witness: the first call on an analyzer over two different parcels
\* without a coordinate reference system was calculate_perimeter; it
\* unified the parcels and returned the fallback perimeter.
C11_Witness ==
  /\ ret.op = "calculate_perimeter"
  /\ ReprojectionFails(gdf)
  /\ Len(gdf.rows) = 2
  /\ gdf.rows[1].geometry # gdf.rows[2].geometry
  /\ calls = 1
  /\ unify_runs = 1
  /\ ~ret.raised
  /\ ret.val = FallbackPerimeter(UnionOfParcels(gdf))
  /\ ret.val > 0

(***************************************************************************)
(* Properties of the request handlers, checked under SpecApp.              *)
(***************************************************************************)
Loaded == GEOJSON_DATA # None
Store == The(GEOJSON_DATA)
Answered == pc = "responded"

\* The first name of the candidate list that the schema of the store has
\* ('BAIRRO' when it has 'BAIRRO' and 'nome').
FirstCandidate ==
  IF {"BAIRRO", "nome"} \subseteq Store.columns /\ "bairro" \notin Store.columns
  THEN "BAIRRO"
  ELSE CHOOSE c \in Store.columns :
         \E i \in DOMAIN bairro_candidates :
           /\ bairro_candidates[i] = c
           /\ \A j \in 1..(i - 1) : bairro_candidates[j] \notin Store.columns

\* C5: get_bairros and get_lotes_by_bairro read the first name of the
\* candidate list that the schema has ('BAIRRO' when it has 'BAIRRO' and
\* 'nome'); with no candidate in the schema they answer 400 'column not
\* found', also for a store without rows, and never 200.
C5_FirstCandidateWins ==
  (Loaded /\ Answered /\ req.ep \in {"bairros", "lotes"}) =>
    IF \A i \in DOMAIN bairro_candidates : bairro_candidates[i] \notin Store.columns
    THEN /\ resp.code = 400
         /\ ~resp.success
         /\ resp.error \in {"Coluna de bairro nao encontrada no GeoJSON",
                            "Coluna de bairro nao encontrada"}
    ELSE /\ resp.code # 400
         /\ resp.code = 200 =>
              LET c == FirstCandidate
              IN  /\ req.ep = "bairros" =>
                        Range(resp.data.bairros) =
                          {Store.rows[i].attrs[c] : i \in DOMAIN Store.rows} \ {NaN}
                  /\ req.ep = "lotes" =>
                        /\ resp.data.total_lotes =
                             Cardinality({i \in DOMAIN Store.rows :
                                            Store.rows[i].attrs[c] = req.arg})
                        /\ \A k \in DOMAIN resp.data.geojson :
                             resp.data.geojson[k].attrs[c] = req.arg
         /\ (req.ep = "lotes" /\ resp.code = 404) =>
              \A i \in DOMAIN Store.rows : Store.rows[i].attrs[FirstCandidate] # req.arg

\* C5 witness: a store with the columns 'BAIRRO' and 'nome' holding
\* different names answered bairros from 'BAIRRO'.
C5_Witness ==
  /\ Loaded /\ Answered /\ req.ep = "bairros"
  /\ Store.columns = {"BAIRRO", "nome"}
  /\ Len(Store.rows) = 2
  /\ resp.code = 200
  /\ resp.data.bairros = <<"A">>
  /\ \A i \in DOMAIN Store.rows : Store.rows[i].attrs["nome"] = "B"

DataEndpoints == {"map-bounds", "bairros", "lotes", "unir-lotes", "info-lote"}

\* The request reached the handler of its endpoint: a URL of info-lote with
\* a negative index matches no route.
Routed == req.ep = "info-lote" => req.arg >= 0

\* C6: after a load from a missing or unreadable file the store is None;
\* and while it is None every data endpoint answers 500 with success =
\* false and a 'not loaded' error, selecting no parcel and building no
\* analyzer; a URL that reaches no endpoint is answered 404, success =
\* false, as on a loaded store.
C6_DegradedButRunning ==
  /\ (pc # "start" /\ dataset.state \in {"missing", "corrupt"}) => GEOJSON_DATA = None
  /\ (Answered /\ ~Routed) =>
        /\ resp.code = 404
        /\ ~resp.success
        /\ resp.selected = << >>
        /\ ~resp.analyzed
  /\ (Answered /\ ~Loaded /\ req.ep \in DataEndpoints /\ Routed) =>
        /\ resp.ep = req.ep
        /\ resp.code = 500
        /\ ~resp.success
        /\ resp.error \in {"Dados nao carregados", "Dados GeoJSON nao carregados",
                           "Dados GeoJSON nao carregados. Adicione terrenos.geojson"}
        /\ resp.selected = << >>
        /\ ~resp.analyzed

\* C6 witness: the file could not be decoded and unir-lotes, posted one
\* index, answered 'not loaded'.
C6_Witness ==
  /\ dataset.state = "corrupt"
  /\ ~Loaded /\ Answered
  /\ req.ep = "unir-lotes"
  /\ req.arg = Some(<<0>>)
  /\ resp.code = 500
  /\ resp.error = "Dados GeoJSON nao carregados"

OutOfRange(i) == i < 0 \/ i >= Len(Store.rows)

InvalidSelection ==
  \/ req.ep = "info-lote" /\ OutOfRange(req.arg)
  \/ /\ req.ep = "unir-lotes"
     /\ req.arg # None
     /\ \/ The(req.arg) = << >>
        \/ \E k \in DOMAIN The(req.arg) : OutOfRange(The(req.arg)[k])

\* C7: on a loaded store an out-of-range index (negative or >= count), given
\* to info-lote or inside the list posted to unir-lotes, and an empty list,
\* are answered with the invalid-input status (4xx, not 500) and no parcel
\* is selected or analysed.
C7_InvalidSelectionRejected ==
  (Loaded /\ Answered /\ InvalidSelection) =>
    /\ resp.code \in {400, 404}
    /\ ~resp.success
    /\ resp.selected = << >>
    /\ ~resp.analyzed

(***************************************************************************)
(* Properties of the ZoningCalculator, checked under SpecCalc.             *)
(***************************************************************************)
\* The value a lookup is to pick: the canonical name, else the
\* abbreviation, else the default.
Chosen(name, abbrev, default) ==
  IF name \in DOMAIN params THEN params[name]
  ELSE IF abbrev \in DOMAIN params THEN params[abbrev]
  ELSE Num(default)

\* The element of the chosen value that counts: of a list the first one.
First(v) == IF v.t = "list" THEN Head(v.items) ELSE v

\* Digits around at most one point.
DecimalStr(m) ==
  /\ \E i \in DOMAIN m : m[i] \in Range(Digits)
  /\ \A i \in DOMAIN m : m[i] \in Range(Digits) \cup {"."}
  /\ \A i, j \in DOMAIN m : (m[i] = "." /\ m[j] = ".") => i = j

\* Digits after at most one sign.
ExponentStr(x) ==
  LET d == IF x # << >> /\ x[1] \in {"+", "-"} THEN Tail(x) ELSE x
  IN  d # << >> /\ \A i \in DOMAIN d : d[i] \in Range(Digits)

\* A string Python's float() takes, among strings of ASCII digits without
\* underscore: between blanks, after at most one sign, either a decimal
\* with or without an exponent or a name of infinity or of NaN.
NumericStr(s) ==
  LET inked == {i \in DOMAIN s : s[i] \notin Whitespace}
      word == IF inked = {} THEN << >>
              ELSE SubSeq(s, CHOOSE i \in inked : \A j \in inked : i <= j,
                             CHOOSE i \in inked : \A j \in inked : i >= j)
      body == IF word # << >> /\ word[1] \in {"+", "-"} THEN Tail(word) ELSE word
  IN  \/ Lower(body) \in {<<"i", "n", "f">>, <<"n", "a", "n">>,
                          <<"i", "n", "f", "i", "n", "i", "t", "y">>}
      \/ DecimalStr(body)
      \/ \E k \in DOMAIN body :
            /\ body[k] \in {"e", "E"}
            /\ DecimalStr(SubSeq(body, 1, k - 1))
            /\ ExponentStr(SubSeq(body, k + 1, Len(body)))

NumericScalar(v) == v.t = "num" \/ (v.t = "str" /\ NumericStr(v.s))
Numeric(v) ==
  IF v.t = "list" THEN v.items # << >> /\ NumericScalar(Head(v.items))
  ELSE NumericScalar(v)

\* What a method is to return for the chosen value: round(area * value, 2).
Expected(v) == Some(MulRound(area_terreno, Float(First(v))))

\* C8: calculate_buildable_area multiplies the area by params['coeficiente']
\* when present, else params['ca'], else 1.0; calculate_footprint by
\* params['taxa_ocupacao'], else params['to'], else 0.5; of a list the
\* first element is used, whatever the later ones are; the product is
\* rounded to two decimals.  With no parameters and area 1000 the results
\* are 1000 and 500.
C8_LookupAndDefaults ==
  /\ zret.op = "calculate_buildable_area" =>
       LET v == Chosen("coeficiente", "ca", 1000)
       IN  /\ Numeric(v) => zret.val = Expected(v)
           /\ v \in {List(<<Num(2000), Str(<<"5">>)>>), List(<<Num(2000), Str(<<"a">>)>>),
                     List(<<Num(2000), NoneValue>>), List(<<Num(2000), Num(2000)>>)} =>
                zret.val = Some(Cents(2 * area_terreno))
           /\ v \in {List(<<Str(<<"5">>), Num(2000)>>), List(<<Str(<<"5">>), Str(<<"a">>)>>),
                     List(<<Str(<<"5">>), NoneValue>>)} =>
                zret.val = Some(Cents(5 * area_terreno))
           /\ (Numeric(v) /\ First(v) = Num(2000)) =>
                zret.val = Some(Cents(2 * area_terreno))
           /\ (Numeric(v) /\ First(v) = Str(<<"5">>)) =>
                zret.val = Some(Cents(5 * area_terreno))
           /\ (Numeric(v) /\ First(v) = Str(<<"-", "5">>)) =>
                zret.val = Some(Cents(-5 * area_terreno))
           /\ (Numeric(v) /\ First(v) = Str(<<" ", "5">>)) =>
                zret.val = Some(Cents(5 * area_terreno))
           /\ (Numeric(v) /\ First(v) = Str(<<"", "5">>)) =>
                zret.val = Some(Cents(5 * area_terreno))
           /\ (Numeric(v) /\ First(v) = Str(<<"5", "U+00A0">>)) =>
                zret.val = Some(Cents(5 * area_terreno))
           /\ (Numeric(v) /\ First(v) \in {Str(<<"i", "n", "f">>),
                                            Str(<<"2", "e", "3", "0", "8">>)}) =>
                zret.val = Some(NotFinite(IF area_terreno > 0 THEN "inf"
                                          ELSE IF area_terreno < 0 THEN "-inf"
                                          ELSE "nan"))
           /\ (Numeric(v) /\ area_terreno = 100000 /\ First(v) =
                  Str(<<"2", "0", "0", "0", "0", "0", "0", "0", "0", "0",
                        "e", "-", "1", "0">>)) =>
                zret.val = Some(Cents(20000))
           /\ (params = << >> /\ area_terreno = 100000) => zret.val = Some(Cents(100000))
  /\ zret.op = "calculate_footprint" =>
       LET v == Chosen("taxa_ocupacao", "to", 500)
       IN  /\ Numeric(v) => zret.val = Expected(v)
           /\ v \in {List(<<Num(2000), Str(<<"5">>)>>), List(<<Num(2000), Str(<<"a">>)>>)} =>
                zret.val = Some(Cents(2 * area_terreno))
           /\ v = List(<<Str(<<"5">>), Num(2000)>>) =>
                zret.val = Some(Cents(5 * area_terreno))
           /\ (Numeric(v) /\ First(v) = Num(2000)) =>
                zret.val = Some(Cents(2 * area_terreno))
           /\ (Numeric(v) /\ First(v) = Str(<<"5">>)) =>
                zret.val = Some(Cents(5 * area_terreno))
           /\ (Numeric(v) /\ First(v) = Str(<<".", "5">>) /\ area_terreno = 12348) =>
                zret.val = Some(Cents(6174))
           /\ (params = << >> /\ area_terreno = 100000) => zret.val = Some(Cents(50000))
           /\ (params = << >> /\ area_terreno = 3) => zret.val = Some(Cents(1))
           /\ (params = << >> /\ area_terreno = 5) => zret.val = Some(Cents(3))
           /\ (Numeric(v) /\ First(v) = Str(<<"", "5">>) /\ area_terreno = 12348) =>
                zret.val = Some(Cents(61740))

\* C8 witness: with 'coeficiente' = [2.0, '5'] and 'ca' = 0.5 the buildable
\* area of 1000 m2 is 2000 m2.
C8_Witness ==
  /\ zret.op = "calculate_buildable_area"
  /\ area_terreno = 100000
  /\ DOMAIN params = {"coeficiente", "ca"}
  /\ params["coeficiente"] = List(<<Num(2000), Str(<<"5">>)>>)
  /\ params["ca"] = Num(500)
  /\ zret.val = Some(Cents(200000))

ChosenFor(op) ==
  IF op = "calculate_buildable_area" THEN Chosen("coeficiente", "ca", 1000)
  ELSE Chosen("taxa_ocupacao", "to", 500)

C9_UnavailableIffNotNumeric ==
  zret.op # "none" =>
    LET v == ChosenFor(zret.op)
    IN  /\ ~Numeric(v) <=> zret.val = None
        /\ v \in {NoneValue, List(<< >>), Str(<< >>), Str(<<".">>), Str(<<"a">>),
                  Str(<<"-">>), Str(<<"-", ".">>), Str(<<"5", "-">>), Str(<<"-", "-">>),
                  List(<<Str(<<"a">>)>>), List(<<NoneValue>>),
                  List(<<Str(<<"a">>), Num(2000)>>), List(<<NoneValue, Num(2000)>>),
                  List(<<Str(<<"a">>), Str(<<"5">>)>>)} => zret.val = None
        /\ v \in {Str(<<"5", ".">>), Str(<<".", "5">>), Str(<<"-", "5">>),
                  Str(<<" ", "5">>), Str(<<"i", "n", "f">>), List(<<Str(<<"5">>)>>),
                  Str(<<"", "5">>), Str(<<"5", "U+00A0">>),
                  Str(<<"2", "e", "3", "0", "8">>),
                  List(<<Num(2000), Str(<<"a">>)>>), List(<<Str(<<"5">>), NoneValue>>)} =>
              zret.val # None

\* C9: both methods return None exactly when the chosen value is not a
\* number (None, a non-numeric string, an empty list, a list whose first
\* element is not numeric) and a number otherwise; neither call changes
\* the stored area or parameters.
C9_NeverRaises ==
  /\ []C9_UnavailableIffNotNumeric
  /\ [][area_terreno' = area_terreno /\ params' = params]_vars

\* C9 witness: the occupation rate is a list whose first element is the
\* string "a" and whose second is 2.0, and calculate_footprint returned
\* None.
C9_Witness ==
  /\ zret.op = "calculate_footprint"
  /\ DOMAIN params = {"taxa_ocupacao", "to"}
  /\ params["taxa_ocupacao"] = List(<<Str(<<"a">>), Num(2000)>>)
  /\ params["to"] = Num(500)
  /\ zret.val = None

(***************************************************************************)
(* Properties of the store under concurrent requests, checked under        *)
(* SpecShared.                                                             *)
(***************************************************************************)
\* What the handler of a request returns when it runs alone on the store.
Alone(request) ==
  CASE request.ep = "map-bounds" -> get_map_bounds(GEOJSON_DATA)
    [] request.ep = "bairros" -> get_bairros(GEOJSON_DATA)
    [] request.ep = "lotes" -> get_lotes_by_bairro(GEOJSON_DATA, request.arg)
    [] request.ep = "unir-lotes" -> unir_lotes(GEOJSON_DATA, request.arg)
    [] request.ep = "info-lote" /\ request.arg >= 0 ->
         get_lote_info(GEOJSON_DATA, request.arg)
    [] OTHER -> not_found

\* The rows a request selects from the store.
SelectedBy(request) ==
  IF request.ep = "unir-lotes" THEN ILoc(Store, The(request.arg))
  ELSE ILoc(Store, <<request.arg>>)

\* The statements of the handlers leave the store as the load left it; an
\* analyzer is built with an empty cache over the rows its own request
\* selects, its cache holds the union of those rows only; a handler returns
\* what it returns when it runs alone.
C12_OwnAnalyzer ==
  /\ pc = "serving" => GEOJSON_DATA = load_geojson(dataset)
  /\ \A t \in Workers :
       /\ workers[t].pc \in {"idle", "done"} => workers[t].analyzer = None
       /\ workers[t].pc \in {"built", "unified"} =>
             /\ workers[t].analyzer # None
             /\ The(workers[t].analyzer).gdf = SelectedBy(workers[t].req)
       /\ workers[t].pc = "built" => The(workers[t].analyzer).unified_geometry = None
       /\ workers[t].pc = "unified" =>
             The(workers[t].analyzer).unified_geometry
               = Some(UnionOfParcels(SelectedBy(workers[t].req)))
       /\ workers[t].pc = "done" => workers[t].resp = Alone(workers[t].req)

\* C12: after the load at startup no step of a request handler, of a
\* TerrainAnalyzer or of a ZoningCalculator changes GEOJSON_DATA (its rows,
\* columns and geometries), whatever requests are answered and however
\* their steps interleave, so the store stays what load_geojson returned;
\* each request has its own analyzer, built with an empty cache, that no
\* step of another request reads or changes.
C12_StoreReadOnly ==
  /\ []C12_OwnAnalyzer
  /\ [][ /\ pc = "serving" => GEOJSON_DATA' = GEOJSON_DATA
         /\ \A t, u \in Workers :
              t # u => (workers'[t] = workers[t] \/ workers'[u] = workers[u])
       ]_vars

\* C12 witness: on a loaded store of two parcels, one thread has unified
\* both parcels and not yet returned while the other thread has answered
\* its own unir-lotes request for one of them with 200.
C12_Witness ==
  /\ Loaded
  /\ Len(Store.rows) = 2
  /\ workers["w1"].pc = "unified"
  /\ Len(The(workers["w1"].analyzer).gdf.rows) = 2
  /\ The(workers["w1"].analyzer).unified_geometry = Some(UnionOfParcels(Store))
  /\ workers["w2"].pc = "done"
  /\ workers["w2"].req.ep = "unir-lotes"
  /\ workers["w2"].resp.code = 200
  /\ Len(workers["w2"].resp.selected) = 1
  /\ GEOJSON_DATA = load_geojson(dataset)

====
